---------------------------- MODULE Spec2Model ----------------------------
(***************************************************************************)
(* Rate shopping of lentics-shipstation: the per-carrier best-rate         *)
(* selectors (FedEx, USPS, UPS), the champion selector and the two-pass    *)
(* batch loop of main().                                                   *)
(*                                                                         *)
(* Conventions                                                             *)
(*   - prices are integer cents ($0.35 is 35, $0.30 is 30);                *)
(*   - instants are integer hours; a calendar date d is the instant 24*d   *)
(*     (midnight), as datetime.strptime gives for a date without a time;   *)
(*   - Python None / False / a raised exception are the records NoneResult,*)
(*     FalseResult and Raised(e); a returned option o is Rate(o).          *)
(***************************************************************************)
EXTENDS Integers, Sequences, FiniteSets, TLC

VARIABLES
    \* ---- one order in the per-carrier selectors
    shipping_options,   \* the options of the carrier's answer, in its order
    deliver_by_date,    \* order.deliver_by_date, an instant
    is_residential,     \* order.Customer.is_residential
    rates,              \* order.rates of the two UPS accounts
    ups_best_option,    \* UPSService: best_option, before its date is removed
    usps_best_option,   \* compare_prices: best_option
    fedex_best_option,  \* get_fedex_best_rate: best_option
    ups_best,           \* what the UPS best-rate function returns
    usps_best,          \* what get_usps_best_rate returns
    fedex_best,         \* what get_fedex_best_rate returns
    sel_pc,             \* position in the selection of one order
    carrier_response,   \* how the carrier's API answered the call made
    \* ---- the carrier clients the orders are given
    fedex_token,        \* FedEx would grant an access token
    ups_token,          \* UPS would grant an access token
    fedex_client,       \* what create_fedex_session returned
    ups_client,         \* what UPSAPIClient() returned
    \* ---- the ShipStation client and its response hook
    client_version,     \* which ShipStation class is in use
    client_pc,          \* the client is ready, waits for a response, or raised
    requests_sent,      \* requests sent to the platform so far
    response,           \* the last response of the platform
    sleep_time,         \* seconds api_calls slept after the last response
    \* ---- one order on its way through the weight and dimensions steps
    order_store_name,      \* the account of the order
    items_list,         \* Shipment.items_list: the line items of the order
    raw_shipment,       \* weight and dimensions of the raw order record
    shipment,           \* Shipment.weight, length, width, height
    item_sku,           \* Shipment.item_sku
    dims_pc,            \* position of the order in the pipeline
    resolver_calls,     \* calls of set_dims_for_multi_order
    rate_payloads,      \* the payloads sent to /shipments/getrates
    update_payload,     \* the payload of the write-back
    \* ---- decode_response on the pages of one account
    pages,              \* the orders of each page of the response
    page_index,         \* the page decode_response is at
    order_index,        \* the order of that page it is at
    list_of_objects,    \* the Order objects built so far
    decode_errors,      \* the exceptions decode_response caught
    decode_pc,          \* decode_response runs, has returned or has raised
    \* ---- set_shipping_for_order on one order and the order on the platform
    update_account,     \* order.store_name
    champion,           \* order.winning_rate
    tag_ids,            \* order.tag_ids, as fetched
    remote_order,       \* the order as the platform holds it
    remote_once,        \* the order on the platform when the first run ended
    update_results,     \* what the requests of every run were answered
    update_retry_list,  \* the entries the runs appended to retry_list
    replaces_tags,      \* the platform takes tagIds of a write-back as the tags
    \* ---- UPSAuthToken: the cached token and one call of get_token
    token_now,          \* datetime.now(), in half minutes
    auth_response,      \* self.auth_response
    token_expiry_time,  \* self.token_expiry_time
    token_valid_until,  \* the instant the server stops taking the held token
    token_pc,           \* where the call of get_token is
    retry_count,        \* retry_count of _refresh_token
    token_requests,     \* token requests sent in this call
    call_cached,        \* the call found an unexpired token in the cache
    token_returned,     \* what the call returned
    lifetime_left,      \* lifetime the returned token had left at the return
    \* ---- fetch_orders_with_retry
    fetch_version,      \* "main" for functions.py, "new_main" for new_main.py
    max_retries,        \* the parameter max_retries
    dict_of_shipstation_clients, \* per account: "client", or "tuple" once reassigned
    attempt,            \* attempts made
    platform_faults,    \* where the platform failed in each attempt, or "none"
    fetch_result,       \* what the call returned
    \* ---- one order in the champion selector
    order_warehouseId,  \* order.order_warehouseId
    winning_rate,       \* order.winning_rate
    champion_pc,        \* position around the call of get_champion_rate
    \* ---- one run of main() over a batch
    end_test,           \* the "End Test" statements of main.py are active
    main_pc,            \* position of main()
    list_of_order_objects, \* the orders initial_setup returns
    index,              \* position of the running loop in its list
    step,               \* function the current order is in
    retry_list,         \* the module's global retry_list
    reattempt_list,     \* main's copy of retry_list for the second pass
    tags,               \* order -> tags the platform has applied
    tag_requests,       \* order -> tags tag_order was called with
    updated,            \* orders whose write-back succeeded
    order_winning_rate, \* order -> carrier of order.winning_rate
    attempts,           \* order -> times the order was put in a program
    customer_data_log   \* main's customer_data_log

selVars == <<shipping_options, deliver_by_date, is_residential, rates,
             ups_best_option, usps_best_option, fedex_best_option,
             ups_best, usps_best, fedex_best, sel_pc, carrier_response>>

clientVars == <<fedex_token, ups_token, fedex_client, ups_client>>

rateVars == <<client_version, client_pc, requests_sent, response, sleep_time>>

dimsVars ==
    <<order_store_name, items_list, raw_shipment, shipment, item_sku, dims_pc,
      resolver_calls, rate_payloads, update_payload>>

champVars == <<order_warehouseId, winning_rate, champion_pc>>

mainVars == <<end_test, main_pc, list_of_order_objects, index, step,
              retry_list, reattempt_list, tags, tag_requests, updated,
              order_winning_rate, attempts, customer_data_log>>

decodeVars ==
    <<pages, page_index, order_index, list_of_objects, decode_errors, decode_pc>>

\* The exchanges with the platform and the token endpoints.
updateVars ==
    <<update_account, champion, tag_ids, remote_order, remote_once, update_results, update_retry_list, replaces_tags>>

tokenVars ==
    <<token_now, auth_response, token_expiry_time, token_valid_until, token_pc, retry_count, token_requests, call_cached, token_returned, lifetime_left>>

fetchVars ==
    <<fetch_version, max_retries, dict_of_shipstation_clients, attempt, platform_faults, fetch_result>>

ioVars == <<decodeVars, updateVars, tokenVars, fetchVars>>

vars == <<selVars, clientVars, champVars, mainVars, rateVars, dimsVars, ioVars>>

----------------------------------------------------------------------------
(* Bounds of the model *)

MaxOpts == 3

(* Python values *)

NoneResult == [kind |-> "None"]
FalseResult == [kind |-> "False"]
Unset == [kind |-> "unset"]
Raised(e) == [kind |-> "raise", error |-> e]
Rate(o) == [kind |-> "rate", option |-> o]

(* The parts of the state a specification does not exercise *)

EmptyDict == [kind |-> "dict"]

NoDecode ==
    /\ pages = <<>>
    /\ page_index = 0
    /\ order_index = 0
    /\ list_of_objects = <<>>
    /\ decode_errors = <<>>
    /\ decode_pc = "idle"

NoUpdate ==
    /\ update_account = "none"
    /\ champion = EmptyDict
    /\ tag_ids = {}
    /\ remote_order = Unset
    /\ remote_once = Unset
    /\ update_results = <<>>
    /\ update_retry_list = <<>>
    /\ replaces_tags = FALSE

\* self.token_expiry_time = None
NoExpiry == 0 - 1

NoToken ==
    /\ token_now = 0
    /\ auth_response = Unset
    /\ token_expiry_time = NoExpiry
    /\ token_valid_until = NoExpiry
    /\ token_pc = "none"
    /\ retry_count = 0
    /\ token_requests = 0
    /\ call_cached = FALSE
    /\ token_returned = "unset"
    /\ lifetime_left = 0

NoFetch ==
    /\ fetch_version = "none"
    /\ max_retries = 0
    /\ dict_of_shipstation_clients = <<>>
    /\ attempt = 0
    /\ platform_faults = <<>>
    /\ fetch_result = Unset

NoIo == NoDecode /\ NoUpdate /\ NoToken /\ NoFetch

NoOrderDims ==
    /\ order_store_name = "none"
    /\ items_list = <<>>
    /\ raw_shipment = Unset
    /\ shipment = Unset
    /\ item_sku = <<>>
    /\ dims_pc = "idle"
    /\ resolver_calls = 0
    /\ rate_payloads = <<>>
    /\ update_payload = Unset

NoPlatformClient ==
    /\ client_version = "none"
    /\ client_pc = "idle"
    /\ requests_sent = 0
    /\ response = Unset
    /\ sleep_time = 0

NoClients ==
    /\ fedex_token = TRUE
    /\ ups_token = TRUE
    /\ fedex_client = Unset
    /\ ups_client = Unset

NoOrderSelected ==
    /\ NoClients
    /\ shipping_options = <<>>
    /\ deliver_by_date = 0
    /\ is_residential = FALSE
    /\ rates = <<>>
    /\ ups_best_option = Unset
    /\ usps_best_option = Unset
    /\ fedex_best_option = Unset
    /\ sel_pc = "idle"
    /\ carrier_response = "none"

NoChampionCall ==
    /\ order_warehouseId = 0
    /\ winning_rate = EmptyDict
    /\ champion_pc = "idle"

NoBatch ==
    /\ end_test = FALSE
    /\ main_pc = "idle"
    /\ list_of_order_objects = <<>>
    /\ index = 0
    /\ step = "idle"
    /\ retry_list = <<>>
    /\ reattempt_list = <<>>
    /\ tags = <<>>
    /\ tag_requests = <<>>
    /\ updated = {}
    /\ order_winning_rate = <<>>
    /\ attempts = <<>>
    /\ customer_data_log = <<>>

(* Business thresholds, in cents *)

PremiumThreshold == 35
GroundSaverThreshold == 30

UPS_GROUND == "UPS Ground"
UPS_GROUND_SAVER == "UPS Ground Saver"

ServiceNames == {UPS_GROUND, "UPS 2nd Day Air"}
Prices == {1000, 1020, 1035, 1040}
Days == {8, 9, 10}

Midnight(d) == 24 * d

Quote == [service_name : ServiceNames \cup {UPS_GROUND_SAVER}, price : Prices,
          delivery_date : {Midnight(d) : d \in Days}]


----------------------------------------------------------------------------
(* Python list primitives *)

\* sorted(xs, key=lambda x: x['price']): stable, ascending
InsertByPrice(sorted, x) ==
    LET k == Cardinality({i \in 1..Len(sorted) : sorted[i].price <= x.price})
    IN SubSeq(sorted, 1, k) \o <<x>> \o SubSeq(sorted, k + 1, Len(sorted))

RECURSIVE SortedByPrice(_)
SortedByPrice(xs) ==
    IF xs = <<>> THEN <<>>
    ELSE InsertByPrice(SortedByPrice(SubSeq(xs, 1, Len(xs) - 1)), xs[Len(xs)])

\* min(xs, key=lambda x: x['delivery_date']): the first element of minimal key
MinByDeliveryDate(xs) ==
    xs[CHOOSE i \in 1..Len(xs) :
          \A j \in 1..Len(xs) :
              \/ xs[j].delivery_date > xs[i].delivery_date
              \/ (xs[j].delivery_date = xs[i].delivery_date /\ j >= i)]

----------------------------------------------------------------------------
(* FedEx: the selection of get_fedex_best_rate *)

\* the rule with the threshold itself allowed
FedexBetterOptionsUpToThreshold(sorted) ==
    LET IsBetter(o) == /\ o.price - sorted[1].price <= PremiumThreshold
                       /\ o.delivery_date < sorted[1].delivery_date
    IN SelectSeq(sorted, IsBetter)

\* better_options
FedexBetterOptions(sorted) ==
    LET IsBetter(o) == /\ o.price - sorted[1].price < PremiumThreshold
                       /\ o.delivery_date < sorted[1].delivery_date
    IN SelectSeq(sorted, IsBetter)

FedexBestOption(valid_shipping_options) ==
    IF valid_shipping_options = <<>> THEN NoneResult
    ELSE LET sorted == SortedByPrice(valid_shipping_options)
             better_options == FedexBetterOptions(sorted)
         IN IF better_options # <<>> THEN Rate(MinByDeliveryDate(better_options))
            ELSE Rate(sorted[1])

(* USPS: compare_prices.  The key of min() is 'deliveryDate', a key the    *)
(* options do not have (they carry 'delivery_date'): the call raises       *)
(* KeyError as soon as better_options is not empty.                        *)

NoneDate == 0 - 1

ComparePrices(formated_options) ==
    LET HasDate(o) == o.delivery_date # NoneDate
        filtered_options == SelectSeq(formated_options, HasDate)
    IN IF filtered_options = <<>> THEN NoneResult
       ELSE LET sorted == SortedByPrice(filtered_options)
                better_options == FedexBetterOptions(sorted)
            IN IF better_options # <<>> THEN Raised("KeyError")
               ELSE Rate(sorted[1])

(* UPS: UPSService._filter_best_option *)

\* the helper's cheapest_option is options[0] of the list it is given
RemoveUnviableGroundSaver(options) ==
    LET cheapest_option == options[1]
        Hits == {i \in 1..Len(options) :
                    /\ options[i].service_name = UPS_GROUND_SAVER
                    /\ i + 1 <= Len(options)
                    /\ options[i + 1].price - cheapest_option.price < GroundSaverThreshold}
        \* winning_index (0-based) is index + 1 of the last hit
        winning_index == IF Hits = {} THEN 0
                         ELSE CHOOSE i \in Hits : \A j \in Hits : j <= i
    IN IF winning_index # 0 THEN SubSeq(options, winning_index + 1, Len(options))
       ELSE options

UpsBetterOptions(sorted) ==
    LET IsBetter(o) == /\ 0 < o.price - sorted[1].price
                       /\ o.price - sorted[1].price < PremiumThreshold
    IN SelectSeq(sorted, IsBetter)

FilterBestOption(sorted) ==
    IF sorted = <<>> THEN NoneResult
    ELSE LET cheapest_option == sorted[1]
             better_options == UpsBetterOptions(sorted)
         IN IF better_options # <<>> /\ cheapest_option.service_name = UPS_GROUND_SAVER
               THEN Rate(MinByDeliveryDate(RemoveUnviableGroundSaver(better_options)))
            ELSE IF better_options # <<>> THEN Rate(MinByDeliveryDate(better_options))
            ELSE Rate(cheapest_option)

----------------------------------------------------------------------------
(* Specification SpecSelect: the three selections applied to one list of   *)
(* qualifying options, in the order set_winning_rate calls the carriers.   *)

InitSelect ==
    /\ \E n \in 0..MaxOpts : shipping_options \in [1..n -> Quote]
    /\ deliver_by_date = Midnight(10)
    /\ is_residential = FALSE
    /\ rates = <<>>
    /\ ups_best = Unset
    /\ usps_best = Unset
    /\ fedex_best = Unset
    /\ ups_best_option = Unset
    /\ usps_best_option = Unset
    /\ fedex_best_option = Unset
    /\ sel_pc = "ups"
    /\ carrier_response = "none"
    /\ NoClients
    /\ NoChampionCall
    /\ NoBatch
    /\ NoPlatformClient
    /\ NoOrderDims
    /\ NoIo

SelectUps ==
    /\ sel_pc = "ups"
    /\ ups_best_option' = FilterBestOption(SortedByPrice(shipping_options))
    /\ sel_pc' = "usps"
    /\ UNCHANGED <<shipping_options, deliver_by_date, is_residential, rates,
                   usps_best_option, fedex_best_option, ups_best, usps_best, fedex_best,
                   carrier_response>>
    /\ UNCHANGED <<clientVars, champVars, mainVars, rateVars, dimsVars, ioVars>>

SelectUsps ==
    /\ sel_pc = "usps"
    /\ usps_best_option' = ComparePrices(shipping_options)
    /\ sel_pc' = "fedex"
    /\ UNCHANGED <<shipping_options, deliver_by_date, is_residential, rates,
                   ups_best_option, fedex_best_option, ups_best, usps_best, fedex_best,
                   carrier_response>>
    /\ UNCHANGED <<clientVars, champVars, mainVars, rateVars, dimsVars, ioVars>>

SelectFedex ==
    /\ sel_pc = "fedex"
    /\ fedex_best_option' = FedexBestOption(shipping_options)
    /\ sel_pc' = "done"
    /\ UNCHANGED <<shipping_options, deliver_by_date, is_residential, rates,
                   ups_best_option, usps_best_option, ups_best, usps_best, fedex_best,
                   carrier_response>>
    /\ UNCHANGED <<clientVars, champVars, mainVars, rateVars, dimsVars, ioVars>>

NextSelect == SelectUps \/ SelectUsps \/ SelectFedex

SpecSelect == InitSelect /\ [][NextSelect]_vars


----------------------------------------------------------------------------
(* The full best-rate functions: the carrier's answer (services and dates) *)
(* is filtered by the deadline and priced from order.rates.                *)

MaxServices == 2

DeadlineHours == {18, 20}
CommitHours == {0, 20}
AnswerDays == {8, 9, 10, 11}
GroundRates == {1000}
SecondDayRates == {990, 1020, 1040}
SaverRates == {960, 985}

Answer == [service_name : ServiceNames, delivery_date : {Midnight(d) : d \in AnswerDays}]

\* strftime('%a').upper() of a date of March 2024 (the 9th is a Saturday)
DayOfWeek(date) ==
    LET r == (date \div 24) % 7
    IN CASE r = 0 -> "THU" [] r = 1 -> "FRI" [] r = 2 -> "SAT" [] r = 3 -> "SUN"
         [] r = 4 -> "MON" [] r = 5 -> "TUE" [] OTHER -> "WED"

\* dict(list_of_tuples).get(key): the last tuple of that key, else None
NoRate == 0 - 1

DictGet(tuples, key) ==
    LET Hits == {i \in 1..Len(tuples) : tuples[i][1] = key}
    IN IF Hits = {} THEN NoRate
       ELSE tuples[CHOOSE i \in Hits : \A j \in Hits : j <= i][2]

\* order.rates.get(carrier, False) is truthy
RateIsApplicable(order_rates, carrier) ==
    carrier \in DOMAIN order_rates /\ order_rates[carrier] # <<>>

\* round(rate * 1.03, 2) on a price in cents
Upcharge(rate) == (rate * 103 + 50) \div 100

\* the platform's name of 'UPS Ground' carries the registered sign
SS_UPS_GROUND == "UPS(R) Ground"

\* normalize('NFKD', name).encode('ascii', 'ignore'): the sign is dropped
Normalize(name) == IF name = SS_UPS_GROUND THEN UPS_GROUND ELSE name

(* UPS *)

FilterValidServices(deadline, services) ==
    LET OnTime(sv) == sv.delivery_date <= deadline
    IN SelectSeq(services, OnTime)

AddGroundSaverToList(services) ==
    LET Grounds == {i \in 1..Len(services) : services[i].service_level_description = UPS_GROUND}
    IN IF Grounds = {} THEN services
       ELSE LET service == services[CHOOSE i \in Grounds : \A j \in Grounds : i <= j]
                number_of_days == IF service.delivery_day_of_week # "SAT" THEN 1 ELSE 2
                next_day == service.delivery_date + 24 * number_of_days
                ground_saver == [service_level_description |-> UPS_GROUND_SAVER,
                                 delivery_date |-> next_day,
                                 delivery_day_of_week |-> DayOfWeek(next_day)]
            IN Append(services, ground_saver)

UpsCarriers == <<"ups", "ups_walleted">>

\* the rates of one service on the two accounts; 'UPS Ground' is looked
\* up, and returned, under the platform's name
RatesOfService(order_rates, service) ==
    LET RateOf(carrier) ==
            IF carrier \notin DOMAIN order_rates THEN <<>>
            ELSE LET name == IF service.service_level_description = UPS_GROUND
                                THEN SS_UPS_GROUND
                             ELSE service.service_level_description
                     rate == DictGet(order_rates[carrier], name)
                 IN IF rate = NoRate THEN <<>>
                    ELSE << [carrier_code |-> carrier,
                             service_name |-> name,
                             price |-> IF carrier = "ups" THEN Upcharge(rate) ELSE rate,
                             delivery_date |-> service.delivery_date] >>
    IN RateOf(UpsCarriers[1]) \o RateOf(UpsCarriers[2])

RECURSIVE GetValidRates(_, _)
GetValidRates(order_rates, services) ==
    IF services = <<>> THEN <<>>
    ELSE RatesOfService(order_rates, Head(services)) \o GetValidRates(order_rates, Tail(services))

\* UPSService.get_best_rate up to best_option; transit_ok = FALSE is a
\* failed call of the transit-time API, caught by the except clause
UpsBestOption(order_rates, deadline, residential, services, transit_ok) ==
    IF ~transit_ok THEN NoneResult
    ELSE LET valid_services == FilterValidServices(deadline, services)
             with_saver == IF residential THEN AddGroundSaverToList(valid_services)
                           ELSE valid_services
             valid_rates == GetValidRates(order_rates, with_saver)
         IN IF valid_rates = <<>> THEN NoneResult
            ELSE FilterBestOption(SortedByPrice(valid_rates))

\* best_option.delivery_date = None; return best_option
UpsReturn(best_option) ==
    IF best_option.kind = "rate"
       THEN Rate([best_option.option EXCEPT !.delivery_date = NoneDate])
    ELSE best_option

(* USPS *)

\* the date at midnight, moved back 5 hours, against the deadline
IsDeliveryBeforeLatest(delivery_date, latest_delivery_date) ==
    delivery_date - 5 <= latest_delivery_date

GetValidOptions(options, latest_delivery_date) ==
    LET OnTime(o) == IsDeliveryBeforeLatest(o.delivery_date, latest_delivery_date)
    IN SelectSeq(options, OnTime)

\* the date of the first valid option of that service, else None
GetDeliveryDate(service_name, valid_shipping_options) ==
    LET Hits == {i \in 1..Len(valid_shipping_options) :
                    valid_shipping_options[i].service_name = service_name}
    IN IF Hits = {} THEN NoneDate
       ELSE valid_shipping_options[CHOOSE i \in Hits : \A j \in Hits : i <= j].delivery_date

\* the postal commitment a platform service name stands for
ServiceDeliveryMapping(service_name) == Normalize(service_name)

\* one option per entry of order.rates["stamps_com"]
FormatValidOptions(usps_rates_list, valid_shipping_options) ==
    [i \in 1..Len(usps_rates_list) |->
        [service_name |-> usps_rates_list[i][1],
         price |-> usps_rates_list[i][2],
         delivery_date |-> GetDeliveryDate(ServiceDeliveryMapping(usps_rates_list[i][1]),
                                           valid_shipping_options)]]

\* usps_response: "ok", or "http_error" (get_usps_response returns None),
\* or "network_error" (requests.post raises; the handler reads the unbound
\* name response)
UspsBestOption(order_rates, usps_response, options, latest_delivery_date) ==
    IF ~RateIsApplicable(order_rates, "stamps_com") THEN NoneResult
    ELSE IF usps_response = "network_error" THEN Raised("UnboundLocalError")
    ELSE IF usps_response = "http_error" THEN FalseResult
    ELSE ComparePrices(FormatValidOptions(order_rates["stamps_com"],
                           GetValidOptions(options, latest_delivery_date)))

\* the dict compare_prices builds: carrierCode, serviceCode, price
UspsReturn(best_option) ==
    IF best_option.kind = "rate"
       THEN Rate([carrier_code |-> "stamps_com",
                  service_name |-> best_option.option.service_name,
                  price |-> best_option.option.price])
    ELSE best_option

(* FedEx *)

\* the options whose service order.rates['fedex'] lists, at its price;
\* the join is on the normalized names
RECURSIVE UpdatePrices(_, _)
UpdatePrices(fedex_rates, options) ==
    IF options = <<>> THEN <<>>
    ELSE LET option == Head(options)
             ss_rates_dict == [i \in 1..Len(fedex_rates) |->
                                  <<Normalize(fedex_rates[i][1]), fedex_rates[i][2]>>]
             rate == DictGet(ss_rates_dict, Normalize(option.service_name))
         IN (IF rate = NoRate THEN <<>>
             ELSE << [service_name |-> option.service_name, price |-> rate,
                      delivery_date |-> option.delivery_date] >>)
            \o UpdatePrices(fedex_rates, Tail(options))

FilterValidShippingOptions(deadline, options) ==
    LET OnTime(o) == o.delivery_date <= deadline
    IN SelectSeq(options, OnTime)

\* response_ok = FALSE: get_fedex_response returns None and
\* get_delivery_dates subscripts it
FedexBestRateOption(order_rates, response_ok, options, deadline) ==
    IF ~RateIsApplicable(order_rates, "fedex") THEN NoneResult
    ELSE IF ~response_ok THEN Raised("TypeError")
    ELSE FedexBestOption(FilterValidShippingOptions(deadline,
                             UpdatePrices(order_rates["fedex"], options)))

FedexReturn(best_option, store_name) ==
    IF best_option.kind = "rate"
       THEN Rate([carrier_code |-> "fedex",
                  service_name |-> best_option.option.service_name,
                  price |-> IF store_name = "lentics"
                               THEN Upcharge(best_option.option.price)
                            ELSE best_option.option.price])
    ELSE best_option

----------------------------------------------------------------------------
(* Specification SpecBest: one order handed to one best-rate function      *)

\* the carrier's API answers, answers with an HTTP error status, or the
\* request itself fails (no connection, timeout)
CarrierResponses == {"ok", "http_error", "network_error"}

\* order.rates: the platform's price of each service, the same list for
\* every carrier the order has rates of
RatesTable(ground, second_day, saver) ==
    << <<SS_UPS_GROUND, ground>>, <<"UPS 2nd Day Air", second_day>> >>
    \o (IF saver = NoRate THEN <<>> ELSE << <<UPS_GROUND_SAVER, saver>> >>)

CarrierSets == { {"ups", "ups_walleted", "fedex", "stamps_com"},
                 {"ups_walleted", "fedex", "stamps_com"},
                 {"ups", "ups_walleted"} }

TransitServices(options) ==
    [i \in 1..Len(options) |->
        [service_level_description |-> options[i].service_name,
         delivery_date |-> options[i].delivery_date,
         delivery_day_of_week |-> DayOfWeek(options[i].delivery_date)]]

AtCommitHour(options, h) ==
    [i \in 1..Len(options) |-> [options[i] EXCEPT !.delivery_date = @ + h]]

InitBest ==
    /\ \E n \in 0..MaxServices : shipping_options \in [1..n -> Answer]
    /\ deliver_by_date \in {Midnight(10) + h : h \in DeadlineHours}
    /\ is_residential \in BOOLEAN
    /\ \E ground \in GroundRates, second_day \in SecondDayRates,
          saver \in SaverRates \cup {NoRate}, carriers \in CarrierSets :
            rates = [c \in carriers |-> RatesTable(ground, second_day, saver)]
    /\ ups_best = Unset
    /\ usps_best = Unset
    /\ fedex_best = Unset
    /\ ups_best_option = Unset
    /\ usps_best_option = Unset
    /\ fedex_best_option = Unset
    /\ sel_pc = "construct"
    /\ carrier_response = "none"
    /\ fedex_token \in BOOLEAN
    /\ ups_token \in BOOLEAN
    /\ fedex_client = Unset
    /\ ups_client = Unset
    /\ NoChampionCall
    /\ NoBatch
    /\ NoPlatformClient
    /\ NoOrderDims
    /\ NoIo

\* decode_response 696-700 (create_clients in new_main.py): the clients
\* every order is given.  UPSAPIClient() makes no request, its token is
\* asked for at the first call; create_fedex_session asks for the token
\* and returns None without one.
CreateClients ==
    /\ sel_pc = "construct"
    /\ ups_client' = [kind |-> "UPSAPIClient"]
    /\ fedex_client' = IF fedex_token THEN [kind |-> "Session"] ELSE NoneResult
    /\ sel_pc' = "call"
    /\ UNCHANGED <<shipping_options, deliver_by_date, is_residential, rates,
                   ups_best_option, usps_best_option, fedex_best_option,
                   ups_best, usps_best, fedex_best, carrier_response,
                   fedex_token, ups_token>>
    /\ UNCHANGED <<champVars, mainVars, rateVars, dimsVars, ioVars>>

GetUpsBestRate ==
    /\ sel_pc = "call"
    /\ carrier_response' \in CarrierResponses
    /\ ups_best_option' = UpsBestOption(rates, deliver_by_date, is_residential,
                                        TransitServices(shipping_options),
                                        ups_token /\ carrier_response' = "ok")
    /\ ups_best' = UpsReturn(ups_best_option')
    /\ sel_pc' = "returned"
    /\ UNCHANGED <<shipping_options, deliver_by_date, is_residential, rates,
                   usps_best_option, fedex_best_option, usps_best, fedex_best>>
    /\ UNCHANGED <<clientVars, champVars, mainVars, rateVars, dimsVars, ioVars>>

GetUspsBestRate ==
    /\ sel_pc = "call"
    /\ carrier_response' \in CarrierResponses
    /\ usps_best_option' = UspsBestOption(rates, carrier_response',
                                          shipping_options, deliver_by_date)
    /\ usps_best' = UspsReturn(usps_best_option')
    /\ sel_pc' = "returned"
    /\ UNCHANGED <<shipping_options, deliver_by_date, is_residential, rates,
                   ups_best_option, fedex_best_option, ups_best, fedex_best>>
    /\ UNCHANGED <<clientVars, champVars, mainVars, rateVars, dimsVars, ioVars>>

GetFedexBestRate ==
    /\ sel_pc = "call"
    /\ carrier_response' \in CarrierResponses
    /\ \E h \in CommitHours :
          fedex_best_option' = FedexBestRateOption(rates,
                                   fedex_client # NoneResult /\ carrier_response' = "ok",
                                   AtCommitHour(shipping_options, h), deliver_by_date)
    /\ \E store_name \in {"lentics", "nuveau"} :
          fedex_best' = FedexReturn(fedex_best_option', store_name)
    /\ sel_pc' = "returned"
    /\ UNCHANGED <<shipping_options, deliver_by_date, is_residential, rates,
                   ups_best_option, usps_best_option, ups_best, usps_best>>
    /\ UNCHANGED <<clientVars, champVars, mainVars, rateVars, dimsVars, ioVars>>

NextBest == CreateClients \/ GetUpsBestRate \/ GetUspsBestRate \/ GetFedexBestRate

SpecBest == InitBest /\ [][NextBest]_vars

----------------------------------------------------------------------------
(* Claims on the per-carrier selectors                                     *)

OnTime(best_option) ==
    best_option.kind = "rate" => best_option.option.delivery_date <= deliver_by_date

\* C1: no per-carrier best-rate function (FedEx, USPS, UPS) returns a
\* winner whose delivery date is after the order's deliver_by_date, the
\* synthesized UPS Ground Saver included.
C1_WinnerMeetsDeadline ==
    /\ OnTime(fedex_best_option)
    /\ OnTime(usps_best_option)
    /\ OnTime(ups_best_option)

\* the part of C1 that the code keeps: the FedEx winner is on time
C1_FedexWinnerMeetsDeadline == OnTime(fedex_best_option)

C1_UpsSaverLate ==
    /\ ups_best_option.kind = "rate"
    /\ ups_best_option.option.service_name = UPS_GROUND_SAVER
    /\ ups_best_option.option.delivery_date > deliver_by_date

C1_UspsLate ==
    /\ usps_best_option.kind = "rate"
    /\ usps_best_option.option.delivery_date > deliver_by_date

----------------------------------------------------------------------------
(* Claims on the selection policy (SpecSelect)                             *)

Cheapest(options) == SortedByPrice(options)[1]

\* the options the policy prefers to the cheapest: a premium under $0.35
\* and a strictly earlier delivery date
Preferred(options) ==
    {i \in 1..Len(options) :
        /\ options[i].price - Cheapest(options).price < 35
        /\ options[i].delivery_date < Cheapest(options).delivery_date}

NoGroundSaver(options) ==
    \A i \in 1..Len(options) : options[i].service_name # UPS_GROUND_SAVER

FollowsPolicy(options, best_option) ==
    /\ best_option.kind = "rate"
    /\ IF Preferred(options) = {}
          THEN best_option.option = Cheapest(options)
       ELSE \E i \in Preferred(options) :
               /\ best_option.option = options[i]
               /\ \A j \in Preferred(options) :
                     options[i].delivery_date <= options[j].delivery_date

\* C2: in every per-carrier selector the winner among the qualifying
\* options is the cheapest one, unless some option costs less than $0.35
\* more and arrives strictly earlier; then it is the earliest of those.
C2_WinnerFollowsPolicy ==
    (sel_pc = "done" /\ shipping_options # <<>> /\ NoGroundSaver(shipping_options))
        => /\ FollowsPolicy(shipping_options, fedex_best_option)
           /\ FollowsPolicy(shipping_options, usps_best_option)
           /\ FollowsPolicy(shipping_options, ups_best_option)

\* the part of C2 that the code keeps: the FedEx selection follows the policy
C2_FedexFollowsPolicy ==
    (sel_pc = "done" /\ shipping_options # <<>>)
        => FollowsPolicy(shipping_options, fedex_best_option)

PremiumBounded(options, best_option) ==
    (best_option.kind = "rate" /\ best_option.option # Cheapest(options))
        => /\ best_option.option.price >= Cheapest(options).price
           /\ best_option.option.price < Cheapest(options).price + 35

C4_SamePolicy ==
    (sel_pc = "done" /\ shipping_options # <<>> /\ NoGroundSaver(shipping_options))
        => /\ fedex_best_option.kind = "rate"
           /\ usps_best_option = fedex_best_option
           /\ ups_best_option = fedex_best_option


----------------------------------------------------------------------------
(* The champion selector: functions.get_champion_rate, as called at the    *)
(* end of main.set_winning_rate                                            *)

StallionWarehouseIds == {665600, 1097040}
MichiganWarehouseId == 486100
WarehouseIds == StallionWarehouseIds \cup {MichiganWarehouseId}

WinnerPrices == {700, 800, 900}

\* what a best-rate function hands to set_winning_rate: None or its rate
Winners(carrier) ==
    {NoneResult} \cup {Rate([carrierCode |-> carrier, price |-> p]) : p \in WinnerPrices}

\* the list that ignores the warehouse
CandidateRatesAnyWarehouse(warehouseId, ups, usps, fedex) ==
    SelectSeq(<<ups, usps, fedex>>, LAMBDA rate : rate # NoneResult)

\* list_of_rates
CandidateRates(warehouseId, ups, usps, fedex) ==
    IF warehouseId \notin StallionWarehouseIds
       THEN SelectSeq(<<ups, usps, fedex>>, LAMBDA rate : rate # NoneResult)
       ELSE SelectSeq(<<ups, usps>>, LAMBDA rate : rate # NoneResult)

\* max(list_of_rates, key=price)
MaxByPrice(list_of_rates) ==
    LET i == CHOOSE k \in 1..Len(list_of_rates) :
                /\ \A j \in 1..Len(list_of_rates) :
                      list_of_rates[j].option.price <= list_of_rates[k].option.price
                /\ \A j \in 1..(k - 1) :
                      list_of_rates[j].option.price < list_of_rates[k].option.price
    IN list_of_rates[i]

\* min(list_of_rates, key=price): the first of the cheapest
MinByPrice(list_of_rates) ==
    LET i == CHOOSE k \in 1..Len(list_of_rates) :
                /\ \A j \in 1..Len(list_of_rates) :
                      list_of_rates[k].option.price <= list_of_rates[j].option.price
                /\ \A j \in 1..(k - 1) :
                      list_of_rates[j].option.price > list_of_rates[k].option.price
    IN list_of_rates[i]

\* get_champion_rate: the champion, or the ValueError min() raises on an
\* empty list
ChampionRate(warehouseId, ups, usps, fedex) ==
    LET list_of_rates == CandidateRates(warehouseId, ups, usps, fedex)
    IN IF list_of_rates = <<>> THEN Raised("ValueError")
       ELSE MinByPrice(list_of_rates)

----------------------------------------------------------------------------
(* Specification SpecChampion: set_winning_rate has the three winners of   *)
(* one order and calls get_champion_rate                                   *)

InitChampion ==
    /\ NoOrderSelected
    /\ NoPlatformClient
    /\ NoOrderDims
    /\ NoIo
    /\ NoBatch
    /\ order_warehouseId \in WarehouseIds
    /\ ups_best \in Winners("ups")
    /\ usps_best \in Winners("stamps_com")
    /\ fedex_best \in Winners("fedex")
    /\ winning_rate = EmptyDict
    /\ champion_pc = "call"

\* main.py 125-127: the exception leaves set_winning_rate, else it
\* returns True
GetChampionRate ==
    /\ champion_pc = "call"
    /\ LET champion_rate == ChampionRate(order_warehouseId, ups_best, usps_best, fedex_best)
       IN IF champion_rate.kind = "raise"
             THEN /\ champion_pc' = "raised"
                  /\ UNCHANGED winning_rate
             ELSE /\ winning_rate' = champion_rate.option
                  /\ champion_pc' = "returned True"
    /\ UNCHANGED <<order_warehouseId, ups_best, usps_best, fedex_best>>
    /\ UNCHANGED <<shipping_options, deliver_by_date, is_residential, rates,
                   ups_best_option, usps_best_option, fedex_best_option, sel_pc,
                   carrier_response>>
    /\ UNCHANGED <<clientVars, mainVars, rateVars, dimsVars, ioVars>>

NextChampion == GetChampionRate

SpecChampion == InitChampion /\ [][NextChampion]_vars

----------------------------------------------------------------------------
(* Claims on the champion selector                                         *)

\* C5: for an order of a Stallion warehouse, get_champion_rate never sets
\* order.winning_rate to the FedEx winner, whatever the three prices are.
C5_RestrictedNeverFedex ==
    order_warehouseId \in StallionWarehouseIds =>
        \/ winning_rate = EmptyDict
        \/ winning_rate.carrierCode # "fedex"

\* a Stallion order whose FedEx winner is strictly the cheapest of three,
\* after the call: the champion is one of the other two
C5_Witness ==
    /\ order_warehouseId \in StallionWarehouseIds
    /\ champion_pc = "returned True"
    /\ ups_best # NoneResult /\ usps_best # NoneResult /\ fedex_best # NoneResult
    /\ fedex_best.option.price < ups_best.option.price
    /\ fedex_best.option.price < usps_best.option.price
    /\ winning_rate \in {ups_best.option, usps_best.option}

\* the scenario of the spec: restricted warehouse, ground carrier (FedEx)
\* $8, postal (USPS) $9, aggregator (UPS) $7, after the call
C6_Scenario ==
    /\ order_warehouseId \in StallionWarehouseIds
    /\ fedex_best = Rate([carrierCode |-> "fedex", price |-> 800])
    /\ usps_best = Rate([carrierCode |-> "stamps_com", price |-> 900])
    /\ ups_best = Rate([carrierCode |-> "ups", price |-> 700])
    /\ champion_pc # "call"

\* C6 as stated: in the scenario the champion is the postal winner.
C6_ChampionIsPostal ==
    C6_Scenario => winning_rate = usps_best.option

\* C6: in the scenario the champion is the aggregator's (UPS) winner at $7,
\* the cheapest of the two winners left once FedEx is excluded.
C6_ChampionIsAggregator ==
    C6_Scenario =>
        /\ champion_pc = "returned True"
        /\ winning_rate = [carrierCode |-> "ups", price |-> 700]

C6_Witness ==
    /\ C6_Scenario
    /\ winning_rate # EmptyDict

\* the candidate set of the order is empty
NoCandidate ==
    CandidateRates(order_warehouseId, ups_best, usps_best, fedex_best) = <<>>

\* C7: with an empty candidate set get_champion_rate returns without
\* raising and selects nothing, and set_winning_rate does not report the
\* order as ready.
C7_EmptySetReturnsQuietly ==
    (NoCandidate /\ champion_pc # "call") =>
        /\ champion_pc # "raised"
        /\ winning_rate = EmptyDict
        /\ champion_pc # "returned True"

\* the only winner is the excluded FedEx winner, and the call has raised
C7_Witness ==
    /\ order_warehouseId \in StallionWarehouseIds
    /\ ups_best = NoneResult /\ usps_best = NoneResult /\ fedex_best # NoneResult
    /\ champion_pc = "raised"
    /\ winning_rate = EmptyDict


----------------------------------------------------------------------------
(* The batch: main() of main.py, with initialize_order, set_winning_rate,  *)
(* set_shipping_for_order and the second pass over retry_list.             *)
(*                                                                         *)
(* main.py carries three active 'raise SystemExit("End Test")' statements  *)
(* (lines 34, 38 and 98; line 26 is the same statement commented out).     *)
(* end_test says whether they are active: TRUE is the file as it stands,   *)
(* FALSE the file with them commented out like line 26.  Line 96 calls     *)
(* order.ups_service.get_ups_best_rate, and the method of UPSService that  *)
(* returns the best rate is get_best_rate: the call is modelled as that.   *)

MaxOrders == 2

\* advancedOptions.customField1 of a fetched order: None, empty, or a date
CustomFields == {"None", "", "03/11/2024 12:00:00"}

\* the truth value Python gives a custom field or a deadline
Truthy(text) == text \notin {"None", ""}

\* a deadline that is the custom field as fetched
DeliverByDateAsFetched(customField1) == customField1

\* Order.__init__: the custom field, or five days from now when it is missing
DeliverByDate(customField1) ==
    IF Truthy(customField1) THEN customField1 ELSE "now + 5 days"

\* what decode_response leaves in an Order that the batch depends on;
\* deliver_by_date is the truth value initialize_order reads
OrderObjects ==
    [dims : {"ok", "multi_no_dims", "single_no_dims"},
     deliver_by_date : {Truthy(DeliverByDate(field)) : field \in CustomFields},
     order_warehouseId : {665600, MichiganWarehouseId}]

FailureReasons ==
    {"No-Dims", "No-DeliveryDate", "No SS Carrier Rates", "No UPS Rate",
     "No USPS Rate", "No Fedex Rate", "Shipping not set"}

\* the winners of the carriers in a batch, at one price per carrier
BatchRate(carrier) ==
    Rate([carrierCode |-> carrier,
          price |-> IF carrier = "ups" THEN 900
                    ELSE IF carrier = "stamps_com" THEN 800 ELSE 700])

\* UPSService.get_best_rate: a rate, or None (every exception is caught)
UpsOutcomes == {BatchRate("ups"), NoneResult}

\* get_usps_best_rate: a rate, None (no stamps_com rates, no option left),
\* False (no response), KeyError of compare_prices, UnboundLocalError of
\* get_usps_response
UspsOutcomes ==
    {BatchRate("stamps_com"), NoneResult, FalseResult,
     Raised("KeyError"), Raised("UnboundLocalError")}

\* get_fedex_best_rate: a rate, None, TypeError of get_delivery_dates
FedexOutcomes == {BatchRate("fedex"), NoneResult, Raised("TypeError")}

\* tag_order: True, False (the platform refuses), UnboundLocalError (the
\* request itself fails and the handler reads response)
TagOutcomes == {"True", "False", "UnboundLocalError"}

Orders == 1..Len(list_of_order_objects)

\* the order the running loop is at, and in the second pass its reason
CurrentOrder ==
    IF main_pc = "second_pass" THEN reattempt_list[index][1] ELSE index

CurrentReason == reattempt_list[index][2]

InProgram(function) ==
    /\ main_pc \in {"first_pass", "second_pass"}
    /\ step = function

\* a tag_order that applies the reason the caller queues the order with
TagOrderWithQueuedReason(order, tag_reason, outcome) ==
    /\ tag_requests' = [tag_requests EXCEPT ![order] = @ \cup {"No SS Carrier Rates"}]
    /\ tags' = IF outcome = "True"
                  THEN [tags EXCEPT ![order] = @ \cup {"No SS Carrier Rates"}]
                  ELSE tags

\* a tag_order that applies the Ready tag whatever the reason
TagOrderReady(order, tag_reason, outcome) ==
    /\ tag_requests' = [tag_requests EXCEPT ![order] = @ \cup {"Ready"}]
    /\ tags' = IF outcome = "True"
                  THEN [tags EXCEPT ![order] = @ \cup {"Ready"}]
                  ELSE tags

\* tag_order(order, tag_reason) answering outcome
TagOrder(order, tag_reason, outcome) ==
    /\ tag_requests' = [tag_requests EXCEPT ![order] = @ \cup {tag_reason}]
    /\ tags' = IF outcome = "True"
                  THEN [tags EXCEPT ![order] = @ \cup {tag_reason}]
                  ELSE tags

\* the program of the order returns False: the first pass continues, the
\* second pass goes to tag_order(order, reason)
ReturnFalse ==
    step' = IF main_pc = "second_pass" THEN "tag_order" ELSE "loop"

InitMain ==
    /\ NoOrderSelected
    /\ NoPlatformClient
    /\ NoOrderDims
    /\ NoIo
    /\ NoChampionCall
    /\ ups_best = Unset
    /\ usps_best = Unset
    /\ fedex_best = Unset
    /\ end_test \in BOOLEAN
    /\ main_pc = "initial_setup"
    /\ \E n \in 0..MaxOrders : list_of_order_objects \in [1..n -> OrderObjects]
    /\ index = 0
    /\ step = "loop"
    /\ retry_list = <<>>
    /\ reattempt_list = <<>>
    /\ tags = [o \in Orders |-> {}]
    /\ tag_requests = [o \in Orders |-> {}]
    /\ updated = {}
    /\ order_winning_rate = [o \in Orders |-> EmptyDict]
    /\ attempts = [o \in Orders |-> 0]
    /\ customer_data_log = <<>>


\* initial_setup: with the End Test statements active the run leaves at
\* line 34, before any order is decoded
InitialSetup ==
    /\ main_pc = "initial_setup"
    /\ IF end_test
          THEN main_pc' = "SystemExit"
          ELSE main_pc' = "first_pass"
    /\ UNCHANGED <<end_test, list_of_order_objects, index, step, retry_list,
                   reattempt_list, tags, tag_requests, updated,
                   order_winning_rate, attempts, customer_data_log>>
    /\ UNCHANGED <<selVars, clientVars, champVars, rateVars, dimsVars, ioVars>>

\* main.py 179-186 and 193-195: the next order of the first loop enters
\* full_program; after the last one retry_list decides on a second pass
FirstPassNext ==
    /\ main_pc = "first_pass"
    /\ step = "loop"
    /\ IF index < Len(list_of_order_objects)
          THEN /\ index' = index + 1
               /\ step' = "initialize_order"
               /\ attempts' = [attempts EXCEPT ![index + 1] = @ + 1]
               /\ UNCHANGED <<main_pc, retry_list, reattempt_list>>
          ELSE /\ IF retry_list # <<>>
                     THEN /\ reattempt_list' = retry_list
                          /\ retry_list' = <<>>
                          /\ main_pc' = "second_pass"
                     ELSE /\ main_pc' = "log_customer_data"
                          /\ UNCHANGED <<retry_list, reattempt_list>>
               /\ index' = 0
               /\ UNCHANGED <<step, attempts>>
    /\ UNCHANGED <<end_test, list_of_order_objects, tags, tag_requests,
                   updated, order_winning_rate, customer_data_log>>
    /\ UNCHANGED <<selVars, clientVars, champVars, rateVars, dimsVars, ioVars>>

\* a second pass that starts over on the entries queued meanwhile
SecondPassUntilEmpty ==
    /\ main_pc = "second_pass"
    /\ step = "loop"
    /\ IF index < Len(reattempt_list)
          THEN /\ index' = index + 1
               /\ step' = "initialize_order"
               /\ attempts' = [attempts EXCEPT ![reattempt_list[index + 1][1]] = @ + 1]
               /\ UNCHANGED <<main_pc, retry_list, reattempt_list>>
          ELSE /\ IF retry_list # <<>>
                     THEN /\ reattempt_list' = retry_list
                          /\ retry_list' = <<>>
                          /\ UNCHANGED main_pc
                     ELSE /\ main_pc' = "log_customer_data"
                          /\ UNCHANGED <<retry_list, reattempt_list>>
               /\ index' = 0
               /\ UNCHANGED <<step, attempts>>
    /\ UNCHANGED <<end_test, list_of_order_objects, tags, tag_requests,
                   updated, order_winning_rate, customer_data_log>>
    /\ UNCHANGED <<selVars, clientVars, champVars, rateVars, dimsVars, ioVars>>

\* main.py 197-220: the next entry of reattempt_list is routed by its
\* reason to full_program, half_program or set_shipping_for_order
SecondPassNext ==
    /\ main_pc = "second_pass"
    /\ step = "loop"
    /\ IF index < Len(reattempt_list)
          THEN LET order == reattempt_list[index + 1][1]
                   reason == reattempt_list[index + 1][2]
               IN /\ index' = index + 1
                  /\ step' = IF reason \in {"No-DeliveryDate", "No SS Carrier Rates"}
                                THEN "initialize_order"
                             ELSE IF reason \in {"No UPS Rate", "No USPS Rate", "No Fedex Rate"}
                                THEN "set_winning_rate"
                             ELSE "set_shipping_for_order"
                  /\ attempts' = [attempts EXCEPT ![order] = @ + 1]
                  /\ UNCHANGED main_pc
          ELSE /\ main_pc' = "log_customer_data"
               /\ index' = 0
               /\ UNCHANGED <<step, attempts>>
    /\ UNCHANGED <<end_test, list_of_order_objects, retry_list, reattempt_list,
                   tags, tag_requests, updated, order_winning_rate,
                   customer_data_log>>
    /\ UNCHANGED <<selVars, clientVars, champVars, rateVars, dimsVars, ioVars>>

\* initialize_order
InitializeOrder ==
    /\ InProgram("initialize_order")
    /\ LET order == CurrentOrder
           object == list_of_order_objects[order]
       IN \/ \* 59-65: no dimensions for a multi or double order
             /\ object.dims = "multi_no_dims"
             /\ \E outcome \in TagOutcomes :
                   /\ TagOrder(order, "No-Dims", outcome)
                   /\ IF outcome = "UnboundLocalError"
                         THEN main_pc' = "raised" /\ UNCHANGED step
                         ELSE ReturnFalse /\ UNCHANGED main_pc
             /\ UNCHANGED retry_list
          \/ \* 67-70
             /\ object.dims # "multi_no_dims"
             /\ ~object.deliver_by_date
             /\ retry_list' = Append(retry_list, <<order, "No-DeliveryDate">>)
             /\ ReturnFalse
             /\ UNCHANGED <<main_pc, tags, tag_requests>>
          \/ \* 75-79, get_rates_for_all_carriers 956-959: the payload
             \* cannot be built without dimensions
             /\ object.dims = "single_no_dims"
             /\ object.deliver_by_date
             /\ \E outcome \in TagOutcomes :
                   /\ TagOrder(order, "No-Dims", outcome)
                   /\ IF outcome = "UnboundLocalError"
                         THEN main_pc' = "raised" /\ UNCHANGED <<step, retry_list>>
                         ELSE /\ retry_list' = Append(retry_list, <<order, "No SS Carrier Rates">>)
                              /\ ReturnFalse
                              /\ UNCHANGED main_pc
          \/ \* 75-81: the platform answers the rate requests, or one fails
             /\ object.dims = "ok"
             /\ object.deliver_by_date
             /\ \E got_rates \in BOOLEAN :
                   IF got_rates
                      THEN step' = "set_winning_rate" /\ UNCHANGED retry_list
                      ELSE /\ retry_list' = Append(retry_list, <<order, "No SS Carrier Rates">>)
                           /\ ReturnFalse
             /\ UNCHANGED <<main_pc, tags, tag_requests>>
    /\ UNCHANGED <<end_test, list_of_order_objects, index, reattempt_list,
                   updated, order_winning_rate, attempts, customer_data_log>>
    /\ UNCHANGED <<selVars, clientVars, champVars, rateVars, dimsVars, ioVars>>


\* set_winning_rate: the carriers are asked in turn; False queues the
\* order, an exception leaves main, and the champion is chosen last
SetWinningRate ==
    /\ InProgram("set_winning_rate")
    /\ LET order == CurrentOrder
           object == list_of_order_objects[order]
       IN \E ups \in UpsOutcomes, usps \in UspsOutcomes, fedex \in FedexOutcomes :
            LET champion_rate == ChampionRate(object.order_warehouseId, ups, usps, fedex)
                Queue(reason) ==
                    /\ retry_list' = Append(retry_list, <<order, reason>>)
                    /\ ReturnFalse
                    /\ UNCHANGED <<main_pc, order_winning_rate>>
                Raise(exit) ==
                    /\ main_pc' = exit
                    /\ UNCHANGED <<step, retry_list, order_winning_rate>>
            IN IF end_test THEN Raise("SystemExit")
               ELSE IF ups = FalseResult THEN Queue("No UPS Rate")
               ELSE IF usps.kind = "raise" THEN Raise("raised")
               ELSE IF usps = FalseResult THEN Queue("No USPS Rate")
               ELSE IF fedex.kind = "raise" THEN Raise("raised")
               ELSE IF fedex = FalseResult THEN Queue("No Fedex Rate")
               ELSE IF champion_rate.kind = "raise" THEN Raise("raised")
               ELSE /\ order_winning_rate' =
                          [order_winning_rate EXCEPT ![order] = champion_rate.option]
                    /\ step' = "set_shipping_for_order"
                    /\ UNCHANGED <<main_pc, retry_list>>
    /\ UNCHANGED <<end_test, list_of_order_objects, index, reattempt_list,
                   tags, tag_requests, updated, attempts, customer_data_log>>
    /\ UNCHANGED <<selVars, clientVars, champVars, rateVars, dimsVars, ioVars>>

\* set_shipping_for_order, which returns True on both branches, and the
\* caller's append to customer_data_log (189-190, 206-207, 216-217, 226-227)
SetShippingForOrder ==
    /\ InProgram("set_shipping_for_order")
    /\ LET order == CurrentOrder
       IN \E success \in BOOLEAN :
            IF success
               THEN /\ updated' = updated \cup {order}
                    /\ \E outcome \in TagOutcomes :
                          /\ TagOrder(order, "Ready", outcome)
                          /\ IF outcome = "UnboundLocalError"
                                THEN /\ main_pc' = "raised"
                                     /\ UNCHANGED <<step, customer_data_log>>
                                ELSE /\ step' = "loop"
                                     /\ customer_data_log' = Append(customer_data_log, order)
                                     /\ UNCHANGED main_pc
                    /\ UNCHANGED retry_list
               ELSE /\ retry_list' = Append(retry_list, <<order, "Shipping not set">>)
                    /\ step' = "loop"
                    /\ customer_data_log' = Append(customer_data_log, order)
                    /\ UNCHANGED <<main_pc, updated, tags, tag_requests>>
    /\ UNCHANGED <<end_test, list_of_order_objects, index, reattempt_list,
                   order_winning_rate, attempts>>
    /\ UNCHANGED <<selVars, clientVars, champVars, rateVars, dimsVars, ioVars>>

\* main.py 201-203, 211-213, 221-223: the program of a retried order was
\* not successful, the order is tagged with the reason it was queued for
TagFailedOrder ==
    /\ InProgram("tag_order")
    /\ \E outcome \in TagOutcomes :
          /\ TagOrder(CurrentOrder, CurrentReason, outcome)
          /\ IF outcome = "UnboundLocalError"
                THEN main_pc' = "raised" /\ UNCHANGED step
                ELSE step' = "loop" /\ UNCHANGED main_pc
    /\ UNCHANGED <<end_test, list_of_order_objects, index, retry_list,
                   reattempt_list, updated, order_winning_rate, attempts,
                   customer_data_log>>
    /\ UNCHANGED <<selVars, clientVars, champVars, rateVars, dimsVars, ioVars>>

\* main.py 229-233
LogCustomerData ==
    /\ main_pc = "log_customer_data"
    /\ main_pc' = "done"
    /\ UNCHANGED <<end_test, list_of_order_objects, index, step, retry_list,
                   reattempt_list, tags, tag_requests, updated,
                   order_winning_rate, attempts, customer_data_log>>
    /\ UNCHANGED <<selVars, clientVars, champVars, rateVars, dimsVars, ioVars>>

NextMain ==
    \/ InitialSetup
    \/ FirstPassNext
    \/ SecondPassNext
    \/ InitializeOrder
    \/ SetWinningRate
    \/ SetShippingForOrder
    \/ TagFailedOrder
    \/ LogCustomerData

SpecMain == InitMain /\ [][NextMain]_vars

\* main is one thread: a step that can be taken is taken
FairMain == InitMain /\ [][NextMain]_vars /\ WF_vars(NextMain)


----------------------------------------------------------------------------
(* Claims on the batch                                                     *)

\* the platform has applied every tag tag_order was called with
PlatformAppliedEveryTag == tags = tag_requests

\* written back successfully and tagged Ready
IsUpdated(order) == order \in updated /\ "Ready" \in tags[order]

\* carries a tag naming a reason it was not updated
IsTaggedWithReason(order) == tags[order] \cap FailureReasons # {}

\* C8: when a run of main() ends, every order that entered the processing
\* loop is either Updated (written back and tagged Ready) or carries a tag
\* naming the reason it was not updated.  Stated for the runs in which the
\* platform applied every tag it was asked for.
C8_UpdatedOrTagged ==
    (main_pc = "done" /\ PlatformAppliedEveryTag) =>
        \A order \in Orders :
            attempts[order] > 0 => IsUpdated(order) \/ IsTaggedWithReason(order)

\* a finished run with an order whose write-back failed on both passes:
\* it is queued again in a retry_list nobody reads, and has no tag
C8_Witness ==
    /\ main_pc = "done"
    /\ PlatformAppliedEveryTag
    /\ \E i \in 1..Len(reattempt_list), j \in 1..Len(retry_list) :
          /\ reattempt_list[i] = retry_list[j]
          /\ retry_list[j][2] = "Shipping not set"
          /\ retry_list[j][1] \notin updated
          /\ tags[retry_list[j][1]] = {}

\* the list the running loop goes through
RunningList ==
    IF reattempt_list # <<>> THEN reattempt_list ELSE list_of_order_objects

\* C9: a failure while processing one order never stops the batch: an
\* exception never ends the run while a later order of the running loop is
\* still to be processed.  Stated for the runs in which the platform
\* applied every tag it was asked for.
C9_FailureNeverStopsBatch ==
    (main_pc = "raised" /\ PlatformAppliedEveryTag) => index = Len(RunningList)

\* no carrier produced a rate for the first order of two: the run is over
\* and the second order was never started
C9_Witness ==
    /\ main_pc = "raised"
    /\ step = "set_winning_rate"
    /\ PlatformAppliedEveryTag
    /\ reattempt_list = <<>>
    /\ index = 1
    /\ Len(list_of_order_objects) = 2
    /\ attempts[2] = 0

\* the number of entries a list of (order, reason) has for one order
EntriesOf(list, order) ==
    Cardinality({i \in 1..Len(list) : list[i][1] = order})

\* the order did not complete its first pass: it was queued, or tagged
\* No-Dims without being queued
FailedFirstPass(order) ==
    \/ EntriesOf(reattempt_list, order) > 0
    \/ "No-Dims" \in tag_requests[order]

Terminated == main_pc \in {"done", "raised", "SystemExit"}

FullProgramReasons == {"No-DeliveryDate", "No SS Carrier Rates"}
HalfProgramReasons == {"No UPS Rate", "No USPS Rate", "No Fedex Rate"}

\* the function a queued entry resumes at
ResumeStep(reason) ==
    IF reason \in FullProgramReasons THEN "initialize_order"
    ELSE IF reason \in HalfProgramReasons THEN "set_winning_rate"
    ELSE "set_shipping_for_order"

\* C11: on the second pass a queued order resumes at the step its reason
\* determines and runs the later steps in order: initialize_order runs only
\* for No-DeliveryDate / No SS Carrier Rates entries and only first,
\* set_winning_rate runs after it or first for a carrier reason, and
\* set_shipping_for_order runs after set_winning_rate or alone for
\* Shipping not set; each entry takes exactly one route.
C11_ResumeByReason ==
    [][(main_pc' = "second_pass" /\ step' # step /\ step' # "loop") =>
         LET reason == reattempt_list'[index'][2]
         IN /\ step = "loop" =>
                  /\ index' = index + 1
                  /\ step' = ResumeStep(reason)
                  /\ reason \in FullProgramReasons \cup HalfProgramReasons
                                \cup {"Shipping not set"}
            /\ step' = "initialize_order" =>
                  step = "loop" /\ reason \in FullProgramReasons
            /\ step' = "set_winning_rate" =>
                  \/ step = "initialize_order" /\ reason \in FullProgramReasons
                  \/ step = "loop" /\ reason \in HalfProgramReasons
            /\ step' = "set_shipping_for_order" =>
                  \/ step = "set_winning_rate"
                  \/ step = "loop" /\ reason = "Shipping not set"]_vars

\* the second pass has resumed a No USPS Rate entry at set_winning_rate
\* and is now at the write-back of a Shipping not set entry
C11_Witness ==
    /\ main_pc = "second_pass"
    /\ Len(reattempt_list) = 2
    /\ reattempt_list[1][2] = "No USPS Rate"
    /\ reattempt_list[2][2] = "Shipping not set"
    /\ index = 2
    /\ step = "set_shipping_for_order"
    /\ attempts[reattempt_list[1][1]] = 2
    /\ order_winning_rate[reattempt_list[1][1]] # EmptyDict


\* the order's program in the first loop is over
DoneInFirstPass(order) ==
    order < index \/ (order = index /\ step = "loop")

----------------------------------------------------------------------------
(* Claims on a carrier whose call fails                                    *)

\* the best-rate function of the carrier was called, it made its request
\* to the carrier and the request failed
UpsCallFailed ==
    sel_pc = "returned" /\ ups_best # Unset /\ carrier_response # "ok"

UspsCallFailed ==
    /\ sel_pc = "returned" /\ usps_best # Unset /\ carrier_response # "ok"
    /\ RateIsApplicable(rates, "stamps_com")

FedexCallFailed ==
    /\ sel_pc = "returned" /\ fedex_best # Unset /\ carrier_response # "ok"
    /\ RateIsApplicable(rates, "fedex")

\* main.py 96-121: what set_winning_rate does with what a best-rate
\* function hands back: the exception leaves it, False queues the order
\* with the carrier's reason, anything else goes on to the next carrier
AfterCarrier(best, reason) ==
    IF best.kind = "raise" THEN "raised"
    ELSE IF best = FalseResult THEN reason
    ELSE "next carrier"

\* C13: when a carrier's call fails with a network or HTTP error,
\* set_winning_rate stops for the order and queues it with that carrier's
\* reason code, for each of the three carriers.
C13_UnavailableQuoteIsQueued ==
    /\ UpsCallFailed => AfterCarrier(ups_best, "No UPS Rate") = "No UPS Rate"
    /\ UspsCallFailed => AfterCarrier(usps_best, "No USPS Rate") = "No USPS Rate"
    /\ FedexCallFailed => AfterCarrier(fedex_best, "No Fedex Rate") = "No Fedex Rate"

\* the one case that is queued: USPS answers with an HTTP error status
C13_UspsHttpErrorQueued ==
    (UspsCallFailed /\ carrier_response = "http_error")
        => AfterCarrier(usps_best, "No USPS Rate") = "No USPS Rate"

\* the UPS request fails and set_winning_rate goes on to USPS
C13_Witness ==
    /\ UpsCallFailed
    /\ ups_best = NoneResult
    /\ AfterCarrier(ups_best, "No UPS Rate") = "next carrier"

\* C14: a network or HTTP failure of the carrier call makes the carrier's
\* best-rate function return None or a sentinel; no exception escapes
\* get_fedex_best_rate, get_usps_best_rate or the UPS best-rate function.
C14_FailureIsReturned ==
    /\ UpsCallFailed => ups_best.kind \in {"None", "False"}
    /\ UspsCallFailed => usps_best.kind \in {"None", "False"}
    /\ FedexCallFailed => fedex_best.kind \in {"None", "False"}

\* the part that holds: UPSService.get_best_rate returns None
C14_UpsFailureIsReturned ==
    UpsCallFailed => ups_best = NoneResult

\* the FedEx request fails and TypeError leaves get_fedex_best_rate
C14_Witness ==
    /\ FedexCallFailed
    /\ fedex_best = Raised("TypeError")


\* C15: when no access token can be obtained for a carrier, building the
\* carrier's client fails at construction: no client is handed to the
\* caller, construction does not complete and no order is processed.
C15_MissingTokenIsFatal ==
    /\ ~fedex_token => fedex_client = Unset
    /\ ~ups_token => ups_client = Unset
    /\ (~fedex_token \/ ~ups_token) => sel_pc = "construct"

\* neither carrier grants a token, both constructors returned, and the
\* order's UPS rate was asked for and came back None
C15_Witness ==
    /\ ~fedex_token /\ ~ups_token
    /\ fedex_client = NoneResult
    /\ ups_client = [kind |-> "UPSAPIClient"]
    /\ sel_pc = "returned"
    /\ ups_best = NoneResult


-----------------------------------------------------------------------------
(* The ShipStation client and its rate limit: every response of the platform
   passes through the api_calls hook of the session before the request that
   caused it returns.  Durations are seconds.                               *)

MaxRequests == 3

ClientVersions == {"v1", "hello_world"}

\* What headers.get gives for a header the response does not carry (None).
NoHeader == -1

\* Values of the X-Rate-Limit-Remaining header.
CallsLeft == {NoHeader, 0, 1, 2, 3}

\* Values of the X-Rate-Limit-Reset header.
TimeLeft == {NoHeader, 5, 30, 60}

StatusCodes == {200, 429, 500}

Responses ==
    [status_code : StatusCodes, calls_left : CallsLeft,
     time_left : TimeLeft, is_json : BOOLEAN]

JsonFailureSleep == 5

MissingResetSleep == 5

MissingRemainingSleep == 2

\* integrations/shipstation/v1/classes.py, ShipStation.api_calls: seconds slept.
ApiCallsSleepV1(r) ==
    IF ~r.is_json THEN JsonFailureSleep
    ELSE IF r.calls_left # NoHeader
         THEN IF r.calls_left <= 2
              THEN IF r.time_left = NoHeader THEN MissingResetSleep
                   ELSE r.time_left
              ELSE 0
         ELSE MissingRemainingSleep

\* hello_world/shipstation/api.py, ShipStation.api_calls: int(None) raises.
ApiCallsRaisesHelloWorld(r) ==
    \/ r.calls_left = NoHeader
    \/ r.calls_left <= 2 /\ r.time_left = NoHeader

ApiCallsSleepHelloWorld(r) ==
    IF r.calls_left # NoHeader /\ r.calls_left <= 2 THEN r.time_left ELSE 0

InitRateLimit ==
    /\ NoOrderSelected
    /\ NoChampionCall
    /\ ups_best = Unset
    /\ usps_best = Unset
    /\ fedex_best = Unset
    /\ NoBatch
    /\ NoOrderDims
    /\ NoIo
    /\ client_version \in ClientVersions
    /\ client_pc = "ready"
    /\ requests_sent = 0
    /\ response = Unset
    /\ sleep_time = 0

\* get, post and put: the next request leaves once the previous one returned.
SendRequest ==
    /\ client_pc = "ready"
    /\ requests_sent < MaxRequests
    /\ requests_sent' = requests_sent + 1
    /\ client_pc' = "sent"
    /\ UNCHANGED <<client_version, response, sleep_time>>
    /\ UNCHANGED <<selVars, clientVars, champVars, mainVars, dimsVars, ioVars>>

ApiCallsV1 ==
    /\ client_version = "v1"
    /\ client_pc = "sent"
    /\ \E r \in Responses :
        /\ response' = r
        /\ sleep_time' = ApiCallsSleepV1(r)
    /\ client_pc' = "ready"
    /\ UNCHANGED <<client_version, requests_sent>>
    /\ UNCHANGED <<selVars, clientVars, champVars, mainVars, dimsVars, ioVars>>

ApiCallsHelloWorld ==
    /\ client_version = "hello_world"
    /\ client_pc = "sent"
    /\ \E r \in Responses :
        /\ response' = r
        /\ IF ApiCallsRaisesHelloWorld(r)
           THEN /\ client_pc' = "raised"
                /\ sleep_time' = 0
           ELSE /\ client_pc' = "ready"
                /\ sleep_time' = ApiCallsSleepHelloWorld(r)
    /\ UNCHANGED <<client_version, requests_sent>>
    /\ UNCHANGED <<selVars, clientVars, champVars, mainVars, dimsVars, ioVars>>

NextRateLimit == SendRequest \/ ApiCallsV1 \/ ApiCallsHelloWorld

SpecRateLimit == InitRateLimit /\ [][NextRateLimit]_vars

\* The last response told the client that 2 calls or fewer remain.
RateLimitReached ==
    /\ response # Unset
    /\ response.calls_left # NoHeader
    /\ response.calls_left <= 2
    /\ response.time_left # NoHeader

\* C16: whenever the client is ready to send a request after a response whose
\* remaining-call-count header is 2 or less, it has slept for the duration
\* given by the reset-time header, whatever the status or body of the response.
C16_SleepsUntilReset ==
    (client_pc = "ready" /\ RateLimitReached)
        => sleep_time = response.time_left

\* C16, the part the code keeps: a response with a JSON body.
C16_JsonResponseSleepsUntilReset ==
    (client_pc = "ready" /\ RateLimitReached /\ response.is_json)
        => sleep_time = response.time_left

C16_Witness ==
    /\ client_version = "v1"
    /\ client_pc = "ready"
    /\ RateLimitReached
    /\ ~response.is_json
    /\ response.status_code = 429
    /\ response.calls_left = 0
    /\ response.time_left = 30
    /\ sleep_time = JsonFailureSleep

-----------------------------------------------------------------------------
(* Weight and dimensions of one order: the resolver of multi- and double-
   orders, the payloads of the rate requests and the write-back payload.
   Lengths are hundredths of an inch, weights ounces, and a string is the
   sequence of its characters.                                              *)

MaxItems == 2

\* The quantity of a line item.
Quantities == 1..2

Box(l, w, h, ounces) == [L |-> l, W |-> w, H |-> h, Ounces |-> ounces]

\* text[n:]
Slice(text, n) == SubSeq(text, n + 1, Len(text))

\* text[:n]
Prefix(text, n) == SubSeq(text, 1, IF n < Len(text) THEN n ELSE Len(text))

\* text.find(char): the 0-based position of the first char, -1 without one
Find(text, char) ==
    IF \E i \in 1..Len(text) : text[i] = char
    THEN (CHOOSE i \in 1..Len(text) :
              text[i] = char /\ \A j \in 1..(i - 1) : text[j] # char) - 1
    ELSE -1

\* char in text
Contains(text, char) == \E i \in 1..Len(text) : text[i] = char

\* warehouse_location.startswith("ST")
StartsWithST(text) == Len(text) >= 2 /\ text[1] = "S" /\ text[2] = "T"

\* for _ in range(quantity): box_sizes.append(box)
Repeat(box, quantity) == [i \in 1..quantity |-> box]

RECURSIVE Flatten(_)
Flatten(lists) ==
    IF lists = <<>> THEN <<>> ELSE Head(lists) \o Flatten(Tail(lists))

RECURSIVE SumSeq(_)
SumSeq(numbers) ==
    IF numbers = <<>> THEN 0 ELSE Head(numbers) + SumSeq(Tail(numbers))

\* None in list_of_box_sizes
NoneIn(list) == \E i \in 1..Len(list) : list[i] = NoneResult

\* check_if_multi_order
IsMultiOrder(items) == Len(items) > 1

\* A check that takes every order for a double-order.
IsDoubleOrderFromOne(items) == items[1].quantity >= 1

IsDoubleOrder(items) == items[1].quantity > 1

stallion_mapping ==
    (<<"1", "2", "1", "8">> :> Box(1600, 2000, 200, 80))
    @@ (<<"1", "6", "2", "0">> :> Box(1900, 2500, 200, 96))
    @@ (<<"1", "2", "3", "6">> :> Box(2000, 3500, 200, 128))
    @@ (<<"1", "8", "2", "3">> :> Box(1900, 2500, 200, 96))
    @@ (<<"1", "8", "2", "4">> :> Box(1900, 2500, 200, 96))
    @@ (<<"2", "0", "2", "4">> :> Box(2300, 3100, 200, 96))
    @@ (<<"2", "0", "2", "6">> :> Box(2300, 3100, 200, 96))
    @@ (<<"2", "2", "2", "8">> :> Box(2300, 3100, 200, 96))
    @@ (<<"2", "3", "2", "5">> :> Box(2300, 3100, 200, 96))
    @@ (<<"2", "3", "2", "9">> :> Box(2300, 3100, 200, 96))
    @@ (<<"2", "3", "3", "5">> :> Box(2600, 3800, 200, 128))
    @@ (<<"2", "4", "3", "0">> :> Box(2600, 2800, 200, 128))
    @@ (<<"2", "4", "3", "5">> :> Box(2600, 2800, 200, 128))
    @@ (<<"2", "4", "3", "6">> :> Box(2600, 2800, 200, 128))
    @@ (<<"2", "6", "3", "8">> :> Box(4100, 2900, 200, 128))
    @@ (<<"2", "7", "3", "9">> :> Box(4100, 2900, 200, 128))
    @@ (<<"2", "8", "3", "9">> :> Box(4100, 2900, 200, 128))
    @@ (<<"2", "5", "3", "1">> :> Box(2600, 2800, 200, 128))
    @@ (<<"0", "8", "1", "0">> :> Box(1300, 1300, 100, 32))

lentics_mapping ==
    (<<"F", "1">> :> Box(2000, 1600, 150, 32))
    @@ (<<"P", "1">> :> Box(1300, 1800, 10, 8))
    @@ (<<"P", "3">> :> Box(1700, 1700, 10, 8))
    @@ (<<"F", "2">> :> Box(2800, 2400, 200, 96))
    @@ (<<"O", "2">> :> Box(1900, 1900, 150, 38))

dimensions_to_sku_mapping ==
    (<<"P", "1">> :> Box(1300, 1800, 10, 8))
    @@ (<<"P", "2">> :> Box(1300, 1800, 10, 8))
    @@ (<<"F", "1">> :> Box(2200, 1500, 150, 40))
    @@ (<<"T", "1">> :> Box(2200, 1650, 150, 50))
    @@ (<<"F", "2">> :> Box(2800, 2200, 150, 80))
    @@ (<<"T", "2">> :> Box(2800, 2200, 150, 80))
    @@ (<<"F", "3">> :> Box(4100, 2900, 200, 176))
    @@ (<<"T", "3">> :> Box(4100, 2900, 200, 192))
    @@ (<<"O", "2">> :> Box(2100, 2000, 150, 48))
    @@ (<<"O", "3">> :> Box(2800, 2700, 150, 96))
    @@ (<<"O", "4">> :> Box(2100, 2900, 150, 136))
    @@ (<<"B", "B">> :> Box(1250, 850, 450, 32))
    @@ (<<"F", "S">> :> Box(1575, 875, 325, 32))

list_of_billyBass_skus ==
    { <<"M", "-", "B", "B", "a", "s", "s", " ", "2">>,
      <<"B", "i", "l", "l", "y", " ", "B", "a", "s", "s", " ", "0", "2">>,
      <<"G", "e", "m", "m", "y", "0", "1">>,
      <<"G", "e", "m", "m", "y", "0", "3">>,
      <<"G", "e", "m", "m", "y", " ", "B", "i", "g", " ", "M", "o", "u", "t", "h", " ", "B", "i", "l", "l", "y", " ", "B", "a", "s", "s", " ", "3">>,
      <<"G", "e", "m", "m", "y", " ", "B", "B", "a", "s", "s", "3">>,
      <<"M", "-", "B", "B", "a", "s", "s">>,
      <<"B", "i", "l", "l", "y", " ", "B", "a", "s", "s", " ", "O", "r", "i", "g", "i", "n", "a", "l">>,
      <<"L", "-", "B", "B", "a", "s", "s", "1">>,
      <<"L", "-", "B", "B", "a", "s", "s", "2">>,
      <<"L", "-", "B", "B", "a", "s", "s", "3">> }

list_of_fresh_stools ==
    { <<"G", "e", "l", " ", "R", "e", "p", "l", "a", "c", "m", "e", "n", "t", " ", "8", " ", "P", "a", "c", "k">>,
      <<"F", "S", "-", "B", "l", "a", "c", "k">>,
      <<"F", "S", "-", " ", "W", "h", "i", "t", "e", " ", "+", " ", "4", " ", "G", "e", "l", "s">>,
      <<"F", "S", "-", " ", "W", "h", "i", "t", "e">>,
      <<"F", "S", "-", " ", "P", "i", "n", "k">>,
      <<"F", "S", "-", " ", "G", "r", "a", "y">>,
      <<"F", "S", "-", " ", "B", "l", "u", "e">>,
      <<"F", "S", "-", " ", "B", "l", "a", "c", "k">>,
      <<"F", "S", " ", "-", " ", "W", "h", "i", "t", "e">>,
      <<"F", "S", " ", "-", " ", "P", "i", "n", "k", " ", "+", " ", "4", " ", "G", "e", "l", "s">>,
      <<"F", "S", " ", "-", " ", "P", "i", "n", "k">>,
      <<"F", "S", " ", "-", " ", "G", "r", "a", "y", " ", "+", " ", "4", " ", "G", "e", "l", "s">>,
      <<"F", "S", " ", "-", " ", "G", "r", "a", "y">>,
      <<"F", "S", " ", "-", " ", "B", "l", "u", "e", " ", "+", " ", "4", " ", "G", "e", "l", "s">>,
      <<"F", "S", " ", "-", " ", "B", "l", "u", "e">>,
      <<"F", "S", " ", "-", " ", "B", "l", "a", "c", "k">> }

\* multi_dims_lentics, get_box_sizes: a size code missing from its table
\* adds no box.
GetBoxSizesLentics(quantity, warehouse_location) ==
    IF StartsWithST(warehouse_location)
    THEN LET size_code == Slice(warehouse_location, 5)
         IN  IF size_code \in DOMAIN stallion_mapping
             THEN Repeat(stallion_mapping[size_code], quantity)
             ELSE <<>>
    ELSE LET size_code ==
                 Slice(warehouse_location, Find(warehouse_location, "|") + 2)
         IN  IF size_code \in DOMAIN lentics_mapping
             THEN Repeat(lentics_mapping[size_code], quantity)
             ELSE <<>>

ListBoxSizesLentics(items) ==
    IF IsMultiOrder(items)
    THEN Flatten([i \in 1..Len(items) |->
             GetBoxSizesLentics(items[i].quantity, items[i].warehouseLocation)])
    ELSE IF IsDoubleOrder(items)
    THEN GetBoxSizesLentics(items[1].quantity, items[1].warehouseLocation)
    ELSE <<>>

\* max(list_of_box_sizes, key=lambda x: x["L"] + x["W"]): the first of the
\* boxes with the largest key
BiggestBoxLentics(list) ==
    list[CHOOSE i \in 1..Len(list) :
            /\ \A j \in 1..Len(list) : list[j].L + list[j].W <= list[i].L + list[i].W
            /\ \A j \in 1..(i - 1) : list[j].L + list[j].W < list[i].L + list[i].W]

\* max(list_of_box_sizes, key=lambda x: x[0])
BiggestBoxNuveau(list) ==
    list[CHOOSE i \in 1..Len(list) :
            /\ \A j \in 1..Len(list) : list[j].L <= list[i].L
            /\ \A j \in 1..(i - 1) : list[j].L < list[i].L]

Aggregate(list, biggest_box) ==
    [length |-> biggest_box.L,
     width  |-> biggest_box.W,
     height |-> SumSeq([i \in 1..Len(list) |-> list[i].H]),
     weight |-> SumSeq([i \in 1..Len(list) |-> list[i].Ounces])]

\* multi_dims_lentics: max() of an empty list raises ValueError
MultiDimsLentics(items, current) ==
    LET list_of_box_sizes == ListBoxSizesLentics(items)
    IN  IF NoneIn(list_of_box_sizes)
        THEN [result |-> "False", shipment |-> current]
        ELSE IF list_of_box_sizes = <<>>
        THEN [result |-> "ValueError", shipment |-> current]
        ELSE [result |-> "True",
              shipment |-> Aggregate(list_of_box_sizes,
                                     BiggestBoxLentics(list_of_box_sizes))]

\* multi_dims_nuveau, get_box_sizes: dims[3] += 16 on a tuple raises TypeError
GetBoxSizesNuveauRaises(sku) ==
    sku \in list_of_fresh_stools /\ Contains(sku, "+")

\* multi_dims_nuveau, get_box_sizes: the else belongs to the second if, so a
\* Billy Bass SKU also gets the boxes of its two-letter prefix.
GetBoxSizesNuveau(sku, quantity) ==
    LET billy_bass == IF sku \in list_of_billyBass_skus
                      THEN Repeat(dimensions_to_sku_mapping[<<"B", "B">>], quantity)
                      ELSE <<>>
    IN  IF sku \in list_of_fresh_stools
        THEN billy_bass \o <<dimensions_to_sku_mapping[<<"F", "S">>]>>
        ELSE billy_bass \o
             Repeat(IF Prefix(sku, 2) \in DOMAIN dimensions_to_sku_mapping
                    THEN dimensions_to_sku_mapping[Prefix(sku, 2)]
                    ELSE NoneResult, quantity)

\* The line items list_box_sizes looks at.
ItemsLookedAt(items) ==
    IF IsMultiOrder(items) THEN items ELSE SubSeq(items, 1, 1)

ListBoxSizesNuveau(items) ==
    Flatten([i \in 1..Len(ItemsLookedAt(items)) |->
                GetBoxSizesNuveau(items[i].sku, items[i].quantity)])

MultiDimsNuveau(items, current) ==
    LET list_of_box_sizes == ListBoxSizesNuveau(items)
    IN  IF ~(IsMultiOrder(items) \/ IsDoubleOrder(items))
        THEN [result |-> "RuntimeError", shipment |-> current]
        ELSE IF \E i \in 1..Len(ItemsLookedAt(items)) :
                    GetBoxSizesNuveauRaises(items[i].sku)
        THEN [result |-> "TypeError", shipment |-> current]
        ELSE IF NoneIn(list_of_box_sizes)
        THEN [result |-> "False", shipment |-> current]
        ELSE IF list_of_box_sizes = <<>>
        THEN [result |-> "ValueError", shipment |-> current]
        ELSE [result |-> "True",
              shipment |-> Aggregate(list_of_box_sizes,
                                     BiggestBoxNuveau(list_of_box_sizes))]

\* set_dims_for_multi_order
SetDimsForMultiOrder(store, items, current) ==
    IF store = "nuveau" THEN MultiDimsNuveau(items, current)
    ELSE IF store = "lentics" THEN MultiDimsLentics(items, current)
    ELSE [result |-> "RuntimeError", shipment |-> current]

\* order.Shipment.item_sku = sku in the loop over a multi-order: the loop
\* ends at the first item whose lookup raises.
ItemSkuAfter(store, items, sku) ==
    IF ~IsMultiOrder(items) THEN sku
    ELSE IF store = "nuveau"
            /\ \E i \in 1..Len(items) : GetBoxSizesNuveauRaises(items[i].sku)
    THEN items[CHOOSE i \in 1..Len(items) :
                   /\ GetBoxSizesNuveauRaises(items[i].sku)
                   /\ \A j \in 1..(i - 1) :
                          ~GetBoxSizesNuveauRaises(items[j].sku)].sku
    ELSE items[Len(items)].sku

\* int(x) of a length that is not negative
IntOf(x) == (x \div 100) * 100

list_of_carriers == <<"ups", "fedex", "ups_walleted", "stamps_com">>

\* set_payload_for_rates: the weight and dimensions of the payload
SetPayloadForRates(ship, sku, carrier) ==
    [carrierCode |-> carrier,
     weight |-> ship.weight,
     length |-> IntOf(ship.length),
     width  |-> IntOf(ship.width),
     height |-> IF carrier = "stamps_com" /\ sku \in list_of_billyBass_skus
                THEN 100
                ELSE IntOf(ship.height)]

\* set_payload_for_update_order: the edge case that sets Shipment.height
ShipmentForUpdateOrder(ship, sku, carrier) ==
    IF carrier = "stamps_com" /\ sku \in list_of_billyBass_skus
    THEN [ship EXCEPT !.height = 100]
    ELSE ship

\* set_payload_for_update_order: the weight and dimensions of the payload
SetPayloadForUpdateOrder(ship, sku, carrier) ==
    LET updated_shipment == ShipmentForUpdateOrder(ship, sku, carrier)
    IN  [carrierCode |-> carrier,
         weight |-> updated_shipment.weight,
         length |-> updated_shipment.length,
         width  |-> updated_shipment.width,
         height |-> updated_shipment.height]

\* warehouseLocation of the line items of a lentics order: the size code
\* follows the bar.
WarehouseLocations ==
    { <<"S", "T", " ", "|", " ", "2", "0", "2", "4">>,
      <<"S", "T", " ", "|", " ", "2", "4", "3", "0">>,
      <<"S", "T", " ", "|", " ", "0", "8", "1", "0">>,
      <<"S", "T", " ", "|", " ", "9", "9", "9", "9">>,
      <<"L", "E", " ", "|", " ", "F", "1">>,
      <<"L", "E", " ", "|", " ", "P", "1">>,
      <<"L", "E", " ", "|", " ", "X", "X">> }

\* sku of the line items of a nuveau order
NuveauSkus ==
    { <<"F", "1">>,
      <<"T", "1">>,
      <<"O", "4">>,
      <<"P", "1">>,
      <<"Z", "Z">>,
      <<"M", "-", "B", "B", "a", "s", "s">>,
      <<"F", "S", "-", " ", "W", "h", "i", "t", "e">>,
      <<"F", "S", "-", " ", "W", "h", "i", "t", "e", " ", "+", " ", "4", " ", "G", "e", "l", "s">> }

LenticsSku == <<"P", "1">>

LineItems(store) ==
    IF store = "nuveau"
    THEN [sku : NuveauSkus, warehouseLocation : {<<>>}, quantity : Quantities]
    ELSE [sku : {LenticsSku}, warehouseLocation : WarehouseLocations,
          quantity : Quantities]

\* weight and dimensions of a raw order record
RawShipments ==
    { [length |-> 1250, width |-> 850, height |-> 450, weight |-> 32],
      [length |-> 1300, width |-> 1800, height |-> 100, weight |-> 8] }

WinningCarriers == {"ups", "stamps_com", "fedex"}

InitDims ==
    /\ NoOrderSelected
    /\ ups_best = Unset
    /\ usps_best = Unset
    /\ fedex_best = Unset
    /\ NoChampionCall
    /\ NoBatch
    /\ NoPlatformClient
    /\ NoIo
    /\ order_store_name \in {"nuveau", "lentics"}
    /\ \E n \in 1..MaxItems : items_list \in [1..n -> LineItems(order_store_name)]
    /\ raw_shipment \in RawShipments
    /\ shipment = raw_shipment
    /\ item_sku = IF Len(items_list) = 1 THEN items_list[1].sku ELSE <<>>
    /\ dims_pc = "initialize_order"
    /\ resolver_calls = 0
    /\ rate_payloads = <<>>
    /\ update_payload = Unset

\* main.py, initialize_order, with get_rates_for_all_carriers: the rate
\* request of any carrier can fail, and the requests stop there.
InitializeOrderDims ==
    /\ dims_pc = "initialize_order"
    /\ LET multi == IsMultiOrder(items_list) \/ IsDoubleOrder(items_list)
           outcome == IF multi
                      THEN SetDimsForMultiOrder(order_store_name, items_list, shipment)
                      ELSE [result |-> "True", shipment |-> shipment]
       IN  /\ resolver_calls' = IF multi THEN resolver_calls + 1 ELSE resolver_calls
           /\ shipment' = outcome.shipment
           /\ item_sku' = IF multi
                          THEN ItemSkuAfter(order_store_name, items_list, item_sku)
                          ELSE item_sku
           /\ IF outcome.result = "True"
              THEN \E deliver_by \in BOOLEAN, failing \in 0..Len(list_of_carriers) :
                     IF ~deliver_by
                     THEN /\ rate_payloads' = <<>>
                          /\ dims_pc' = "No-DeliveryDate"
                     ELSE /\ rate_payloads' =
                               [i \in 1..(IF failing = 0 THEN Len(list_of_carriers)
                                          ELSE failing) |->
                                   SetPayloadForRates(shipment', item_sku',
                                                      list_of_carriers[i])]
                          /\ dims_pc' = IF failing = 0
                                        THEN "set_shipping_for_order"
                                        ELSE "No SS Carrier Rates"
              ELSE /\ rate_payloads' = <<>>
                   /\ dims_pc' = IF outcome.result = "False" THEN "No-Dims"
                                 ELSE "raised"
    /\ UNCHANGED <<order_store_name, items_list, raw_shipment, update_payload>>
    /\ UNCHANGED <<selVars, clientVars, champVars, mainVars, rateVars, ioVars>>

\* main.py, set_shipping_for_order: set_payload_for_update_order builds the
\* payload of the write-back for the winning carrier.
SetShippingForOrderDims ==
    /\ dims_pc = "set_shipping_for_order"
    /\ \E carrier \in WinningCarriers :
        /\ shipment' = ShipmentForUpdateOrder(shipment, item_sku, carrier)
        /\ update_payload' = SetPayloadForUpdateOrder(shipment, item_sku, carrier)
    /\ dims_pc' = "done"
    /\ UNCHANGED <<order_store_name, items_list, raw_shipment, item_sku,
                   resolver_calls, rate_payloads>>
    /\ UNCHANGED <<selVars, clientVars, champVars, mainVars, rateVars, ioVars>>

NextDims == InitializeOrderDims \/ SetShippingForOrderDims

SpecDims == InitDims /\ [][NextDims]_vars

-----------------------------------------------------------------------------
(* Claims on the weight and dimensions of multi- and double-orders *)

\* The size code get_box_sizes reads in a warehouse location.
SizeCode(warehouse_location) ==
    IF StartsWithST(warehouse_location)
    THEN Slice(warehouse_location, 5)
    ELSE Slice(warehouse_location, Find(warehouse_location, "|") + 2)

\* The line item has an entry in the lookup table of its account.
IsMapped(store, item) ==
    IF store = "nuveau"
    THEN \/ item.sku \in list_of_billyBass_skus
         \/ item.sku \in list_of_fresh_stools
         \/ Prefix(item.sku, 2) \in DOMAIN dimensions_to_sku_mapping
    ELSE IF StartsWithST(item.warehouseLocation)
         THEN SizeCode(item.warehouseLocation) \in DOMAIN stallion_mapping
         ELSE SizeCode(item.warehouseLocation) \in DOMAIN lentics_mapping

SomeItemUnmapped ==
    \E i \in 1..Len(items_list) : ~IsMapped(order_store_name, items_list[i])

\* set_dims_for_multi_order was called and has ended.
ResolverActed == resolver_calls = 1 /\ dims_pc # "initialize_order"

\* C17: when at least one line item of a multi- or double-order is not in
\* the lookup table of its account, set_dims_for_multi_order returns False,
\* raises nothing and leaves the weight and the dimensions of the order as
\* they were.
C17_UnmappedReturnsFalse ==
    (ResolverActed /\ SomeItemUnmapped)
        => (dims_pc = "No-Dims" /\ shipment = raw_shipment)

\* C17, the part the code keeps: the nuveau table, when no lookup raises.
C17_NuveauUnmappedReturnsFalse ==
    (/\ ResolverActed
     /\ SomeItemUnmapped
     /\ order_store_name = "nuveau"
     /\ \A i \in 1..Len(items_list) : ~GetBoxSizesNuveauRaises(items_list[i].sku))
        => (dims_pc = "No-Dims" /\ shipment = raw_shipment)

\* A lentics order with a mapped and an unmapped item got an aggregate.
C17_Witness ==
    /\ ResolverActed
    /\ order_store_name = "lentics"
    /\ SomeItemUnmapped
    /\ \E i \in 1..Len(items_list) : IsMapped(order_store_name, items_list[i])
    /\ dims_pc \notin {"No-Dims", "raised"}
    /\ shipment # raw_shipment

\* The entry of the lookup table for a mapped line item.
TableBox(store, item) ==
    IF store = "nuveau"
    THEN IF item.sku \in list_of_billyBass_skus
         THEN dimensions_to_sku_mapping[<<"B", "B">>]
         ELSE IF item.sku \in list_of_fresh_stools
         THEN dimensions_to_sku_mapping[<<"F", "S">>]
         ELSE dimensions_to_sku_mapping[Prefix(item.sku, 2)]
    ELSE IF StartsWithST(item.warehouseLocation)
         THEN stallion_mapping[SizeCode(item.warehouseLocation)]
         ELSE lentics_mapping[SizeCode(item.warehouseLocation)]

\* One table entry for every unit of every line item.
UnitBoxes(store, items) ==
    Flatten([i \in 1..Len(items) |->
                Repeat(TableBox(store, items[i]), items[i].quantity)])

AllItemsMapped ==
    \A i \in 1..Len(items_list) : IsMapped(order_store_name, items_list[i])

\* The shipment carries the sums and the largest footprint of the unit boxes.
IsAggregateOf(ship, boxes) ==
    /\ ship.weight = SumSeq([i \in 1..Len(boxes) |-> boxes[i].Ounces])
    /\ ship.height = SumSeq([i \in 1..Len(boxes) |-> boxes[i].H])
    /\ \E i \in 1..Len(boxes) :
        /\ \A j \in 1..Len(boxes) : boxes[j].L + boxes[j].W <= boxes[i].L + boxes[i].W
        /\ ship.length = boxes[i].L
        /\ ship.width = boxes[i].W

\* C18: when every unit of a multi- or double-order is mapped, the resolver
\* gives a result, neither False nor an exception, and sets the weight to the
\* sum of the table weights over every unit, the height to the sum of the
\* table heights over every unit, and the length and width to those of a
\* unit box whose length + width is largest, for both account tables.
C18_MappedOrderGetsAggregate ==
    (ResolverActed /\ AllItemsMapped)
        => /\ dims_pc \notin {"No-Dims", "raised"}
           /\ IsAggregateOf(shipment, UnitBoxes(order_store_name, items_list))

\* C18, the part the code keeps: the lentics table.
C18_LenticsMappedOrderGetsAggregate ==
    (ResolverActed /\ AllItemsMapped /\ order_store_name = "lentics")
        => /\ dims_pc \notin {"No-Dims", "raised"}
           /\ IsAggregateOf(shipment, UnitBoxes(order_store_name, items_list))

\* A mapped nuveau order got the length and width of a box that has not the
\* largest footprint.
C18_Witness ==
    /\ ResolverActed
    /\ AllItemsMapped
    /\ order_store_name = "nuveau"
    /\ dims_pc = "set_shipping_for_order"
    /\ ~IsAggregateOf(shipment, UnitBoxes(order_store_name, items_list))

\* The orders that differ from items only in the order of the line items.
Reorderings(items) ==
    { [i \in 1..Len(items) |-> items[p[i]]] :
          p \in Permutations(1..Len(items)) }

\* The resolver has set the weight and dimensions and nothing changed them
\* since.
ResolverResultOnShipment ==
    /\ ResolverActed
    /\ dims_pc \in {"set_shipping_for_order", "No SS Carrier Rates",
                    "No-DeliveryDate"}

\* C19: permuting the line items of a multi-order leaves the result of the
\* resolver unchanged: every reordering of the line items gets the same
\* weight, height, length and width, for both account tables.
C19_PermutationInvariant ==
    ResolverResultOnShipment
        => \A reordered \in Reorderings(items_list) :
               SetDimsForMultiOrder(order_store_name, reordered, raw_shipment)
                   = [result |-> "True", shipment |-> shipment]

\* C19, the part the code keeps in exact arithmetic: the sums.
C19_SumsPermutationInvariant ==
    ResolverResultOnShipment
        => \A reordered \in Reorderings(items_list) :
               LET other == SetDimsForMultiOrder(order_store_name, reordered,
                                                 raw_shipment)
               IN  /\ other.result = "True"
                   /\ other.shipment.weight = shipment.weight
                   /\ other.shipment.height = shipment.height

\* Two line items with the same length + width and different boxes.
C19_Witness ==
    /\ ResolverResultOnShipment
    /\ order_store_name = "lentics"
    /\ Len(items_list) = 2
    /\ \E reordered \in Reorderings(items_list) :
           LET other == SetDimsForMultiOrder(order_store_name, reordered,
                                             raw_shipment)
           IN  /\ other.result = "True"
               /\ other.shipment.length # shipment.length

-----------------------------------------------------------------------------
(* Claims on the weight and dimensions of a single order *)

\* Neither a multi-order nor a double-order, and initialize_order has ended.
SingleOrderInitialized ==
    /\ Len(items_list) = 1
    /\ items_list[1].quantity = 1
    /\ dims_pc # "initialize_order"

AsInRawRecord(payload) ==
    /\ payload.weight = raw_shipment.weight
    /\ payload.length = raw_shipment.length
    /\ payload.width = raw_shipment.width
    /\ payload.height = raw_shipment.height

\* C20: for an order that is neither a multi-order nor a double-order the
\* resolver is never invoked, and the weight, length, width and height of
\* every rate request and of the write-back payload are exactly those of the
\* raw order record.
C20_SingleOrderKeepsRawDims ==
    SingleOrderInitialized
        => /\ resolver_calls = 0
           /\ \A i \in 1..Len(rate_payloads) : AsInRawRecord(rate_payloads[i])
           /\ update_payload # Unset => AsInRawRecord(update_payload)

BillyBassByStamps(carrier) ==
    carrier = "stamps_com" /\ items_list[1].sku \in list_of_billyBass_skus

\* C20, amended: for such an order the resolver is never invoked and the
\* weight of every payload is the raw one; a rate request carries the whole
\* inches of the raw length, width and height, the write-back payload the raw
\* length, width and height, except that a Billy Bass SKU gets height 1 in
\* the rate request to stamps_com and in the write-back when stamps_com wins.
C20_SingleOrderDims ==
    SingleOrderInitialized
        => /\ resolver_calls = 0
           /\ \A i \in 1..Len(rate_payloads) :
               LET payload == rate_payloads[i]
               IN  /\ payload.weight = raw_shipment.weight
                   /\ payload.length = (raw_shipment.length \div 100) * 100
                   /\ payload.width = (raw_shipment.width \div 100) * 100
                   /\ payload.height =
                          IF BillyBassByStamps(payload.carrierCode) THEN 100
                          ELSE (raw_shipment.height \div 100) * 100
           /\ update_payload # Unset =>
               /\ update_payload.weight = raw_shipment.weight
               /\ update_payload.length = raw_shipment.length
               /\ update_payload.width = raw_shipment.width
               /\ update_payload.height =
                      IF BillyBassByStamps(update_payload.carrierCode) THEN 100
                      ELSE raw_shipment.height

\* A single Billy Bass order was written back with stamps_com as the winner.
C20_Witness ==
    /\ SingleOrderInitialized
    /\ dims_pc = "done"
    /\ resolver_calls = 0
    /\ BillyBassByStamps(update_payload.carrierCode)
    /\ raw_shipment.height = 450
    /\ update_payload.height = 100
    /\ Len(rate_payloads) = Len(list_of_carriers)

-----------------------------------------------------------------------------
(* decode_response: the raw orders of the pages of one account become Order
   objects.  Every page answered with status 200.                           *)

MaxRawOrders == 2

bad_stores == {165349, 203468, 325291, 433937}

PopCreationsWarehouseId == 779978

michigan_warehouse_ids == {486100, 98792, 1097041, 505774, 857645, 1097039}

\* advancedOptions.storeId of the raw orders: a manual store and another one
StoreIds == {165349, 100000}

\* advancedOptions.warehouseId of the raw orders: the last one has no ship-from
\* location
RawWarehouseIds == {MichiganWarehouseId, PopCreationsWarehouseId, 1}

\* orderTotal of the raw orders, in cents
OrderTotals == {0, 2500}

\* shipTo.state of the raw orders
ShipToStates == {"MI", "PR"}

Item(quantity) == [adjustment |-> FALSE, quantity |-> quantity]

AdjustmentLine == [adjustment |-> TRUE, quantity |-> 1]

\* items of the raw orders
RawItemLists ==
    { <<AdjustmentLine>>,
      <<Item(1)>>,
      <<Item(2)>>,
      <<Item(2), AdjustmentLine>>,
      <<Item(1), Item(1)>>,
      <<Item(2), Item(1)>> }

RawOrders ==
    [storeId : StoreIds, warehouseId : RawWarehouseIds,
     orderTotal : OrderTotals, state : ShipToStates, items : RawItemLists]

\* Shipment.__init__: items_list keeps the lines that are no adjustment
NonAdjustmentItems(raw_items_list) ==
    SelectSeq(raw_items_list, LAMBDA item : item.adjustment = FALSE)

\* set_order_shipfrom_location raises RuntimeError for any other warehouse
HasShipFromLocation(warehouseId) ==
    \/ warehouseId \in michigan_warehouse_ids
    \/ warehouseId \in StallionWarehouseIds

\* check_if_multi_order: items_list[0] of an empty list raises IndexError
CheckIfMultiOrderRaises(order_items) == order_items = <<>>

CheckIfMultiOrder(order_items) ==
    [is_multi_order  |-> Len(order_items) > 1,
     is_double_order |-> order_items[1].quantity > 1]

\* What the body of the loop over the orders of a page does with one order.
DecodeOutcome(order) ==
    IF order.storeId \in bad_stores THEN "continue"
    ELSE IF order.warehouseId = PopCreationsWarehouseId THEN "continue"
    ELSE IF order.orderTotal = 0 THEN "continue"
    ELSE IF ~HasShipFromLocation(order.warehouseId) THEN "RuntimeError"
    ELSE IF order.state = "PR" THEN "continue"
    ELSE IF CheckIfMultiOrderRaises(NonAdjustmentItems(order.items))
    THEN "IndexError"
    ELSE "append"

\* Order(order, store_name) after check_if_multi_order
OrderObject(page, position, order) ==
    LET order_items == NonAdjustmentItems(order.items)
        flags == CheckIfMultiOrder(order_items)
    IN  [page |-> page, position |-> position,
         order_warehouseId |-> order.warehouseId,
         items_list |-> order_items,
         is_multi_order |-> flags.is_multi_order,
         is_double_order |-> flags.is_double_order]

InitDecode ==
    /\ NoOrderSelected
    /\ ups_best = Unset
    /\ usps_best = Unset
    /\ fedex_best = Unset
    /\ NoChampionCall
    /\ NoBatch
    /\ NoPlatformClient
    /\ NoOrderDims
    /\ NoUpdate
    /\ NoToken
    /\ NoFetch
    /\ \E n \in 0..MaxRawOrders, first \in 0..MaxRawOrders :
        /\ first <= n
        /\ \E orders \in [1..n -> RawOrders] :
             pages = <<SubSeq(orders, 1, first), SubSeq(orders, first + 1, n)>>
    /\ page_index = 1
    /\ order_index = 1
    /\ list_of_objects = <<>>
    /\ decode_errors = <<>>
    /\ decode_pc = "decode"

\* One turn of "for order in response_json['orders']": the except clause is
\* outside this loop, so an exception ends the page.
DecodeOrder ==
    /\ decode_pc = "decode"
    /\ page_index <= Len(pages)
    /\ order_index <= Len(pages[page_index])
    /\ LET order == pages[page_index][order_index]
           outcome == DecodeOutcome(order)
       IN  IF outcome \in {"RuntimeError", "IndexError"}
           THEN /\ decode_errors' = Append(decode_errors, outcome)
                /\ page_index' = page_index + 1
                /\ order_index' = 1
                /\ UNCHANGED list_of_objects
           ELSE /\ list_of_objects' =
                      IF outcome = "append"
                      THEN Append(list_of_objects,
                                  OrderObject(page_index, order_index, order))
                      ELSE list_of_objects
                /\ order_index' = order_index + 1
                /\ UNCHANGED <<page_index, decode_errors>>
    /\ UNCHANGED <<pages, decode_pc>>
    /\ UNCHANGED <<selVars, clientVars, champVars, mainVars, rateVars, dimsVars, updateVars, tokenVars, fetchVars>>

\* The loop over the orders of a page ends, or the page has no orders.
NextPage ==
    /\ decode_pc = "decode"
    /\ page_index <= Len(pages)
    /\ order_index > Len(pages[page_index])
    /\ page_index' = page_index + 1
    /\ order_index' = 1
    /\ UNCHANGED <<pages, list_of_objects, decode_errors, decode_pc>>
    /\ UNCHANGED <<selVars, clientVars, champVars, mainVars, rateVars, dimsVars, updateVars, tokenVars, fetchVars>>

\* return list_of_objects
ReturnListOfObjects ==
    /\ decode_pc = "decode"
    /\ page_index > Len(pages)
    /\ decode_pc' = "returned"
    /\ UNCHANGED <<pages, page_index, order_index, list_of_objects, decode_errors>>
    /\ UNCHANGED <<selVars, clientVars, champVars, mainVars, rateVars, dimsVars, updateVars, tokenVars, fetchVars>>

NextDecode == DecodeOrder \/ NextPage \/ ReturnListOfObjects

SpecDecode == InitDecode /\ [][NextDecode]_vars

-----------------------------------------------------------------------------
(* Claims on the normalization of raw orders *)

RawOrderOf(object) == pages[object.page][object.position]

\* The positions of the lines of a raw order that are no adjustment.
ProductLines(order) ==
    {i \in 1..Len(order.items) : ~order.items[i].adjustment}

\* C21: after normalization is_multi_order is true exactly when the order
\* has more than one non-adjustment line, is_double_order exactly when it has
\* a single non-adjustment line of quantity above 1, the two flags are never
\* both true, and an order with adjustment lines only does not make
\* normalization fail.
C21_FlagsOfNormalizedOrder ==
    /\ \A k \in 1..Len(list_of_objects) :
        LET object == list_of_objects[k]
            lines == ProductLines(RawOrderOf(object))
        IN  /\ object.is_multi_order <=> Cardinality(lines) > 1
            /\ object.is_double_order <=>
                   /\ Cardinality(lines) = 1
                   /\ \A i \in lines : RawOrderOf(object).items[i].quantity > 1
            /\ ~(object.is_multi_order /\ object.is_double_order)
    /\ \A e \in 1..Len(decode_errors) : decode_errors[e] # "IndexError"

\* C21, the part the code keeps: the multi-order flag.
C21_MultiOrderFlag ==
    \A k \in 1..Len(list_of_objects) :
        list_of_objects[k].is_multi_order
            <=> Cardinality(ProductLines(RawOrderOf(list_of_objects[k]))) > 1

\* An order with two product lines came out with both flags set.
C21_Witness ==
    /\ decode_pc = "returned"
    /\ \E k \in 1..Len(list_of_objects) :
        /\ list_of_objects[k].is_multi_order
        /\ list_of_objects[k].is_double_order
        /\ Cardinality(ProductLines(RawOrderOf(list_of_objects[k]))) = 2

\* The raw order matches a known-bad condition.
IsKnownBad(order) ==
    \/ order.storeId \in bad_stores
    \/ order.warehouseId = PopCreationsWarehouseId
    \/ order.orderTotal = 0
    \/ order.state = "PR"

Positions == {<<p, i>> \in (1..Len(pages)) \X (1..MaxRawOrders) : i <= Len(pages[p])}

Returned(p, i) ==
    \E k \in 1..Len(list_of_objects) :
        list_of_objects[k].page = p /\ list_of_objects[k].position = i

\* Every order that matches no known-bad condition has a ship-from location
\* and a product line.
OtherOrdersAreSound ==
    \A pos \in Positions :
        LET order == pages[pos[1]][pos[2]]
        IN  ~IsKnownBad(order)
                => /\ HasShipFromLocation(order.warehouseId)
                   /\ ProductLines(order) # {}

\* C22: decode_response filters out every raw order that matches a known-bad
\* condition without raising and without affecting the other orders of the
\* response: such an order is never in the returned list, and every order
\* that matches no condition is in it.
C22_FiltersOnlyBadOrders ==
    (decode_pc = "returned" /\ OtherOrdersAreSound)
        => \A pos \in Positions :
               Returned(pos[1], pos[2]) <=> ~IsKnownBad(pages[pos[1]][pos[2]])

\* C22, the part the code keeps: a known-bad order is never returned.
C22_BadOrdersNeverReturned ==
    \A pos \in Positions :
        IsKnownBad(pages[pos[1]][pos[2]]) => ~Returned(pos[1], pos[2])

\* An order to PR without ship-from location ended its page, and the sound
\* order after it was lost.
C22_Witness ==
    /\ decode_pc = "returned"
    /\ OtherOrdersAreSound
    /\ Len(pages[1]) = 2
    /\ pages[1][1].state = "PR"
    /\ ~IsKnownBad(pages[1][2])
    /\ ~Returned(1, 2)
    /\ decode_errors = <<"RuntimeError">>

\* C23: an order whose warehouse id has no ship-from location makes
\* normalization fail fatally: the RuntimeError is never caught, and
\* decode_response neither goes on nor returns after it.
C23_UnknownWarehouseIsFatal ==
    \A e \in 1..Len(decode_errors) : decode_errors[e] # "RuntimeError"

\* The RuntimeError was caught, and an order of the next page was built.
C23_Witness ==
    /\ decode_pc = "returned"
    /\ decode_errors = <<"RuntimeError">>
    /\ Len(pages[1]) = 1
    /\ ~HasShipFromLocation(pages[1][1].warehouseId)
    /\ ~IsKnownBad(pages[1][1])
    /\ Returned(2, 1)

-----------------------------------------------------------------------------
(* Claims on the synthesized UPS Ground Saver option *)

\* UPSService.get_best_rate: the services its rates are looked up for
UpsServiceList(deadline, residential, services) ==
    LET valid_services == FilterValidServices(deadline, services)
    IN  IF residential THEN AddGroundSaverToList(valid_services)
        ELSE valid_services

\* ups_api.py, add_ground_saver_to_list: every turn of the loop sets
\* ground_saver, to None for a service that is not Ground, so the last service
\* of the list decides.
LegacyAddGroundSaverToList(service_list) ==
    IF service_list = <<>> THEN service_list
    ELSE LET service == service_list[Len(service_list)]
         IN  IF service.service_level_description # UPS_GROUND THEN service_list
             ELSE LET number_of_days ==
                          IF service.delivery_day_of_week # "SAT" THEN 1 ELSE 2
                      next_day == service.delivery_date + 24 * number_of_days
                  IN  Append(service_list,
                             [service_level_description |-> UPS_GROUND_SAVER,
                              delivery_date |-> next_day,
                              delivery_day_of_week |-> DayOfWeek(next_day)])

\* ups_api.py, get_ups_best_rate: the services its rates are looked up for
LegacyUpsServiceList(deadline, residential, services) ==
    LET valid_services == FilterValidServices(deadline, services)
    IN  IF residential THEN LegacyAddGroundSaverToList(valid_services)
        ELSE valid_services

\* The UPS client was called and its transit-time request was answered.
UpsAnswered ==
    /\ sel_pc = "returned"
    /\ ups_best_option # Unset
    /\ ups_token
    /\ carrier_response = "ok"

ValidUpsServices ==
    FilterValidServices(deliver_by_date, TransitServices(shipping_options))

Of(list, description) ==
    {i \in 1..Len(list) : list[i].service_level_description = description}

\* The list has one Saver, a day after a Ground of the services, two days
\* after a Ground that lands on Saturday, when the services have a Ground,
\* and no Saver otherwise.
HasSaverOfGround(list, services) ==
    IF Of(services, UPS_GROUND) = {}
    THEN Of(list, UPS_GROUND_SAVER) = {}
    ELSE /\ Cardinality(Of(list, UPS_GROUND_SAVER)) = 1
         /\ \A s \in Of(list, UPS_GROUND_SAVER) :
              \E g \in Of(services, UPS_GROUND) :
                 /\ list[s].delivery_date = services[g].delivery_date +
                        (IF DayOfWeek(services[g].delivery_date) = "SAT"
                         THEN 48 ELSE 24)
                 /\ list[s].delivery_day_of_week = DayOfWeek(list[s].delivery_date)
                 /\ DayOfWeek(services[g].delivery_date) = "FRI"
                        => list[s].delivery_day_of_week = "SAT"

\* C24: whenever the UPS services of an order contain a 'UPS Ground', at any
\* position and for any order, the UPS client adds exactly one 'UPS Ground
\* Saver' dated one day after Ground, two days when Ground lands on Saturday,
\* with the matching day of the week; without a Ground it adds no Saver.
C24_GroundSaverSynthesized ==
    UpsAnswered
        => /\ HasSaverOfGround(UpsServiceList(deliver_by_date, is_residential,
                                              TransitServices(shipping_options)),
                               ValidUpsServices)
           /\ HasSaverOfGround(LegacyUpsServiceList(deliver_by_date, is_residential,
                                              TransitServices(shipping_options)),
                               ValidUpsServices)

\* C24, the part the code keeps: UPSService on a residential order.
C24_ResidentialGroundSaverSynthesized ==
    (UpsAnswered /\ is_residential)
        => HasSaverOfGround(UpsServiceList(deliver_by_date, is_residential,
                                           TransitServices(shipping_options)),
                            ValidUpsServices)

\* A business address with an on-time Ground got no Saver.
C24_Witness ==
    /\ UpsAnswered
    /\ ~is_residential
    /\ Of(ValidUpsServices, UPS_GROUND) # {}
    /\ Of(UpsServiceList(deliver_by_date, is_residential,
                         TransitServices(shipping_options)), UPS_GROUND_SAVER) = {}

\* The first option after position i, in price order, that is no Saver: its
\* position, 0 without one.
NextReal(sorted, i) ==
    LET Reals == {j \in (i + 1)..Len(sorted) :
                     sorted[j].service_name # UPS_GROUND_SAVER}
    IN  IF Reals = {} THEN 0 ELSE CHOOSE j \in Reals : \A k \in Reals : j <= k

\* The Saver at position i saves less than $0.30 against the next real option.
SavesTooLittle(sorted, i) ==
    /\ NextReal(sorted, i) # 0
    /\ sorted[NextReal(sorted, i)].price - sorted[i].price < 30

\* C25: in the UPS selector, when the cheapest option is a Ground Saver and
\* the next real option in price order costs less than $0.30 more, that next
\* real option is returned; when it costs $0.30 or more above the Saver, the
\* Saver wins unless an option under $0.35 more arrives earlier; and the
\* winner is never a Ground Saver that saves less than $0.30.
C25_GroundSaverVeto ==
    (ups_best_option # Unset /\ shipping_options # <<>>)
        => LET sorted == SortedByPrice(shipping_options)
               winner == ups_best_option.option
           IN  /\ ups_best_option.kind = "rate"
               /\ sorted[1].service_name = UPS_GROUND_SAVER =>
                    IF SavesTooLittle(sorted, 1)
                    THEN winner = sorted[NextReal(sorted, 1)]
                    ELSE \/ winner = sorted[1]
                         \/ /\ winner.price - sorted[1].price < 35
                            /\ winner.delivery_date < sorted[1].delivery_date
               /\ \A i \in 1..Len(sorted) :
                    (winner = sorted[i] /\ winner.service_name = UPS_GROUND_SAVER)
                        => ~SavesTooLittle(sorted, i)

\* C25, the part the code keeps: the cheapest Saver does not win when a real
\* option costs more, and less than $0.30 more.
C25_CheapestSaverGivesWay ==
    (/\ ups_best_option # Unset
     /\ shipping_options # <<>>
     /\ LET sorted == SortedByPrice(shipping_options)
        IN  /\ sorted[1].service_name = UPS_GROUND_SAVER
            /\ \E j \in 2..Len(sorted) :
                 /\ sorted[j].service_name # UPS_GROUND_SAVER
                 /\ sorted[j].price > sorted[1].price
                 /\ sorted[j].price - sorted[1].price < 30)
        => /\ ups_best_option.kind = "rate"
           /\ ups_best_option.option # SortedByPrice(shipping_options)[1]

\* The winner is a second Saver, $0.20 under the next real option.
C25_Witness ==
    /\ ups_best_option # Unset
    /\ Len(shipping_options) = 3
    /\ LET sorted == SortedByPrice(shipping_options)
       IN  /\ sorted[1].service_name = UPS_GROUND_SAVER
           /\ sorted[2].service_name = UPS_GROUND_SAVER
           /\ sorted[3].service_name # UPS_GROUND_SAVER
           /\ sorted[3].price - sorted[2].price = 20
           /\ ups_best_option.option = sorted[2]

-----------------------------------------------------------------------------
(* The Order Update step: set_shipping_for_order writes the champion rate
   back to the platform and tags the order Ready.  The platform keeps the
   tags of an order as a set of tag ids; whether the tagIds of a write-back
   replace them is left open.                                               *)

MaxRuns == 2

Accounts == {"nuveau", "lentics"}

account_tag_id_mapping ==
    [nuveau  |-> [Ready |-> 52987, MultiOrder |-> 52943],
     lentics |-> [Ready |-> 166212, MultiOrder |-> 166210]]

\* A lookup that gives the Multi-Order tag for every reason.
GetTagIdOfMultiOrder(account, tag_reason) ==
    account_tag_id_mapping[account].MultiOrder

\* get_tag_id
GetTagId(account, tag_reason) ==
    IF tag_reason = "Ready" THEN account_tag_id_mapping[account].Ready
    ELSE account_tag_id_mapping[account].MultiOrder

shipping_provider_id_mapping ==
    [nuveau  |-> [stamps_com |-> 139051, ups |-> 659748, fedex |-> 203639,
                  ups_walleted |-> 139292],
     lentics |-> [stamps_com |-> 89042, ups |-> 1227452, fedex |-> 465570,
                  ups_walleted |-> 465647]]

\* order.mapping_services: the service code of a service name
mapping_services ==
    [n \in {"UPS Ground", "USPS Priority Mail", "FedEx Ground"} |->
        CASE n = "UPS Ground" -> "ups_ground"
          [] n = "USPS Priority Mail" -> "usps_priority_mail"
          [] OTHER -> "fedex_ground"]

\* order.winning_rate after get_champion_rate
Champions ==
    { [carrierCode |-> "ups", serviceCode |-> "UPS Ground"],
      [carrierCode |-> "ups_walleted", serviceCode |-> "UPS Ground"],
      [carrierCode |-> "stamps_com", serviceCode |-> "USPS Priority Mail"],
      [carrierCode |-> "fedex", serviceCode |-> "FedEx Ground"] }

\* set_payload_for_update_order: service, carrier, billing account and tags
UpdateOrderPayload(account, rate, order_tag_ids) ==
    [requestedShippingService |-> rate.serviceCode,
     carrierCode |-> rate.carrierCode,
     serviceCode |-> mapping_services[rate.serviceCode],
     billToMyOtherAccount |->
         shipping_provider_id_mapping[account][rate.carrierCode],
     tagIds |-> order_tag_ids]

\* The platform after an accepted /orders/createorder.
CreateOrder(remote, payload, replaces) ==
    [requestedShippingService |-> payload.requestedShippingService,
     carrierCode |-> payload.carrierCode,
     serviceCode |-> payload.serviceCode,
     billToMyOtherAccount |-> payload.billToMyOtherAccount,
     tags |-> IF replaces THEN payload.tagIds ELSE remote.tags]

\* The platform after an accepted /orders/addtag.
AddTag(remote, tag_id) == [remote EXCEPT !.tags = @ \cup {tag_id}]

\* The order on the platform when the program fetched it.
FetchedOrder(order_tag_ids) ==
    [requestedShippingService |-> "none",
     carrierCode |-> "none",
     serviceCode |-> "none",
     billToMyOtherAccount |-> 0,
     tags |-> order_tag_ids]

InitUpdate ==
    /\ NoOrderSelected
    /\ ups_best = Unset
    /\ usps_best = Unset
    /\ fedex_best = Unset
    /\ NoChampionCall
    /\ NoBatch
    /\ NoPlatformClient
    /\ NoOrderDims
    /\ NoDecode
    /\ NoToken
    /\ NoFetch
    /\ update_account \in Accounts
    /\ champion \in Champions
    /\ tag_ids \in SUBSET {1, GetTagId(update_account, "Ready")}
    \* check_if_multi_order may have tagged the order since it was fetched
    /\ \E multi \in BOOLEAN :
         remote_order =
             IF multi
             THEN AddTag(FetchedOrder(tag_ids),
                         GetTagId(update_account, "Multi-Order"))
             ELSE FetchedOrder(tag_ids)
    /\ remote_once = Unset
    /\ update_results = <<>>
    /\ update_retry_list = <<>>
    /\ replaces_tags \in BOOLEAN

\* The ways a request to /orders/addtag ends in tag_order: accepted; refused
\* with a response, and tag_order returns False; no response at all, and the
\* handler of tag_order reads the unbound response and raises.
AddTagOutcomes == {"tagged", "refused", "raised"}

\* main.py, set_shipping_for_order: create_or_update_order, then the Ready
\* tag on success, whose result is not looked at, or an entry of retry_list.
SetShippingForOrderOnPlatform ==
    /\ update_account \in Accounts
    /\ Len(update_results) < MaxRuns
    /\ \E success \in BOOLEAN, tag \in AddTagOutcomes \cup {"none"} :
        /\ success <=> tag \in AddTagOutcomes
        /\ LET payload == UpdateOrderPayload(update_account, champion, tag_ids)
               written == CreateOrder(remote_order, payload, replaces_tags)
           IN  remote_order' =
                   IF ~success THEN remote_order
                   ELSE IF tag = "tagged"
                   THEN AddTag(written, GetTagId(update_account, "Ready"))
                   ELSE written
        /\ update_results' =
               Append(update_results,
                      [success |-> success, tagged |-> tag = "tagged",
                       raised |-> tag = "raised"])
        /\ update_retry_list' =
               IF success THEN update_retry_list
               ELSE Append(update_retry_list, "Shipping not set")
    /\ remote_once' = IF update_results = <<>> THEN remote_order' ELSE remote_once
    /\ UNCHANGED <<update_account, champion, tag_ids, replaces_tags>>
    /\ UNCHANGED <<selVars, clientVars, champVars, mainVars, rateVars, dimsVars, decodeVars, tokenVars, fetchVars>>

NextUpdate == SetShippingForOrderOnPlatform

SpecUpdate == InitUpdate /\ [][NextUpdate]_vars

\* Every request of every run so far was accepted.
AllAccepted ==
    \A r \in 1..Len(update_results) :
        update_results[r].success /\ update_results[r].tagged

-----------------------------------------------------------------------------
(* UPSAuthToken.get_token and _refresh_token.  Instants are half minutes.   *)

MaxClock == 6

\* the buffer of 60 seconds taken off expires_in
ExpiryBuffer == 2

\* max_retries of _refresh_token
MaxTokenRetries == 3

\* expires_in of a token response: 60 and 120 seconds
ExpiresIn == {2, 4}

\* What a token request ends in: status 200 with a token, status 200 without
\* an access_token, another status, an exception of session.post.
TokenResponses == {"token", "no_token", "status", "exception"}

\* The test of get_token on the cache.
TokenIsCached ==
    ~ (auth_response = Unset \/ token_expiry_time = NoExpiry
         \/ token_now >= token_expiry_time)

InitToken ==
    /\ NoOrderSelected
    /\ ups_best = Unset
    /\ usps_best = Unset
    /\ fedex_best = Unset
    /\ NoChampionCall
    /\ NoBatch
    /\ NoPlatformClient
    /\ NoOrderDims
    /\ NoDecode
    /\ NoUpdate
    /\ NoFetch
    /\ token_now = 0
    /\ auth_response = Unset
    /\ token_expiry_time = NoExpiry
    /\ token_valid_until = NoExpiry
    /\ token_pc = "idle"
    /\ retry_count = 0
    /\ token_requests = 0
    /\ call_cached = FALSE
    /\ token_returned = "unset"
    /\ lifetime_left = 0

\* Time passes, between calls and during the requests and the sleeps.
Tick ==
    /\ token_pc # "none"
    /\ token_now < MaxClock
    /\ token_now' = token_now + 1
    /\ UNCHANGED <<auth_response, token_expiry_time, token_valid_until,
                   token_pc, retry_count, token_requests, call_cached,
                   token_returned, lifetime_left>>
    /\ UNCHANGED <<selVars, clientVars, champVars, mainVars, rateVars, dimsVars, decodeVars, updateVars, fetchVars>>

\* get_token up to the return of a cached token or the first token request.
GetToken ==
    /\ token_pc \in {"idle", "returned", "raised"}
    /\ call_cached' = TokenIsCached
    /\ token_requests' = 0
    /\ retry_count' = 0
    /\ IF TokenIsCached
       THEN /\ token_pc' = "returned"
            /\ token_returned' = auth_response.access_token
            /\ lifetime_left' = token_valid_until - token_now
       ELSE /\ token_pc' = "refreshing"
            /\ UNCHANGED <<token_returned, lifetime_left>>
    /\ UNCHANGED <<token_now, auth_response, token_expiry_time, token_valid_until>>
    /\ UNCHANGED <<selVars, clientVars, champVars, mainVars, rateVars, dimsVars, decodeVars, updateVars, fetchVars>>

\* One turn of the loop of _refresh_token, and the return of get_token.
PostTokenRequest ==
    /\ token_pc = "refreshing"
    /\ token_requests' = token_requests + 1
    /\ \E answer \in TokenResponses, expires_in \in ExpiresIn :
        CASE answer \in {"token", "no_token"} ->
               /\ auth_response' =
                      [access_token |-> IF answer = "token" THEN "token"
                                        ELSE "None",
                       expires_in |-> expires_in]
               /\ token_expiry_time' = token_now + expires_in - ExpiryBuffer
               /\ token_valid_until' = token_now + expires_in
               /\ token_pc' = "returned"
               /\ token_returned' = auth_response'.access_token
               /\ lifetime_left' = expires_in
               /\ UNCHANGED retry_count
          [] answer = "status" ->
               /\ retry_count' = retry_count + 1
               /\ token_pc' = IF retry_count' < MaxTokenRetries
                              THEN "refreshing" ELSE "raised"
               /\ UNCHANGED <<auth_response, token_expiry_time,
                              token_valid_until, token_returned, lifetime_left>>
          [] OTHER ->
               /\ token_pc' = "raised"
               /\ UNCHANGED <<auth_response, token_expiry_time,
                              token_valid_until, token_returned, lifetime_left,
                              retry_count>>
    /\ UNCHANGED <<token_now, call_cached>>
    /\ UNCHANGED <<selVars, clientVars, champVars, mainVars, rateVars, dimsVars, decodeVars, updateVars, fetchVars>>

NextToken == Tick \/ GetToken \/ PostTokenRequest

SpecToken == InitToken /\ [][NextToken]_vars

\* C27: a call of get_token returns a token that is not empty and not yet
\* expired, with no token request when it found the cached token unexpired,
\* or raises after exactly 3 failed token requests; no call sends more than
\* 3 token requests.
C27_GetTokenContract ==
    /\ token_requests <= 3
    /\ token_pc = "returned" =>
           /\ token_returned # "None"
           /\ lifetime_left > 0
           /\ call_cached => token_requests = 0
    /\ token_pc = "raised" => token_requests = 3

\* A call that raised after a single token request.
C27_Witness ==
    /\ token_pc = "raised"
    /\ token_requests = 1

-----------------------------------------------------------------------------
(* fetch_orders_with_retry, of functions.py (called by main.py) and of
   new_main.py.                                                             *)

MaxRetries == 3

\* connect_to_api: the accounts of dict_of_shipstation_clients, in its order
Stores == <<"nuveau", "lentics">>

NoFault == <<"none", 0>>

\* Where the platform fails during one attempt: at the refresh of the stores
\* of an account or at the fetch of its orders.
PlatformFaults ==
    {NoFault} \cup ({"refresh", "fetch"} \X (1..Len(Stores)))

\* The try block of functions.fetch_orders_with_retry from account k on:
\* refresh_stores reads the value of the account as a client, the value is
\* then replaced by the tuple (list_of_orders, client), and the orders are
\* fetched.
RECURSIVE FetchAccounts(_, _, _)
FetchAccounts(clients, k, fault) ==
    IF k > Len(Stores) THEN [clients |-> clients, returned |-> TRUE]
    ELSE IF clients[k] = "tuple" \/ fault = <<"refresh", k>>
    THEN [clients |-> clients, returned |-> FALSE]
    ELSE LET reassigned == [clients EXCEPT ![k] = "tuple"]
         IN  IF fault = <<"fetch", k>>
             THEN [clients |-> reassigned, returned |-> FALSE]
             ELSE FetchAccounts(reassigned, k + 1, fault)

InitFetch ==
    /\ NoOrderSelected
    /\ ups_best = Unset
    /\ usps_best = Unset
    /\ fedex_best = Unset
    /\ NoChampionCall
    /\ NoBatch
    /\ NoPlatformClient
    /\ NoOrderDims
    /\ NoDecode
    /\ NoUpdate
    /\ NoToken
    /\ fetch_version \in {"main", "new_main"}
    /\ max_retries \in 1..MaxRetries
    /\ dict_of_shipstation_clients = [k \in 1..Len(Stores) |-> "client"]
    /\ attempt = 0
    /\ platform_faults = <<>>
    /\ fetch_result = Unset

\* functions.py: one turn of the loop, and the return None after the last.
FetchOrdersAttempt ==
    /\ fetch_version = "main"
    /\ fetch_result = Unset
    /\ attempt < max_retries
    /\ attempt' = attempt + 1
    /\ \E fault \in PlatformFaults :
        LET run == FetchAccounts(dict_of_shipstation_clients, 1, fault)
        IN  /\ platform_faults' = Append(platform_faults, fault)
            /\ dict_of_shipstation_clients' = run.clients
            /\ fetch_result' =
                   IF run.returned THEN [kind |-> "orders"]
                   ELSE IF attempt' = max_retries THEN NoneResult
                   ELSE Unset
    /\ UNCHANGED <<fetch_version, max_retries>>
    /\ UNCHANGED <<selVars, clientVars, champVars, mainVars, rateVars, dimsVars, decodeVars, updateVars, tokenVars>>

\* new_main.py: one turn of the loop over one client, and its else branch.
NewMainFetchOrdersAttempt ==
    /\ fetch_version = "new_main"
    /\ fetch_result = Unset
    /\ attempt < max_retries
    /\ attempt' = attempt + 1
    /\ \E fault \in {NoFault, <<"fetch", 1>>} :
        /\ platform_faults' = Append(platform_faults, fault)
        /\ fetch_result' =
               IF fault = NoFault THEN [kind |-> "orders"]
               ELSE IF attempt' = max_retries THEN NoneResult
               ELSE Unset
    /\ UNCHANGED <<fetch_version, max_retries, dict_of_shipstation_clients>>
    /\ UNCHANGED <<selVars, clientVars, champVars, mainVars, rateVars, dimsVars, decodeVars, updateVars, tokenVars>>

NextFetch == FetchOrdersAttempt \/ NewMainFetchOrdersAttempt

SpecFetch == InitFetch /\ [][NextFetch]_vars

\* The platform answered every request of attempt a.
PlatformAnswered(a) == platform_faults[a] = NoFault

\* C28: fetch_orders_with_retry makes at most max_retries attempts, goes on
\* only while the platform has failed in every attempt so far, returns the
\* orders at the first attempt the platform answers, and returns None only
\* when the platform failed in every attempt.
C28_RetryUntilPlatformAnswers ==
    /\ attempt <= max_retries
    /\ fetch_result \in {Unset, NoneResult} =>
           \A a \in 1..attempt : ~PlatformAnswered(a)
    /\ fetch_result = [kind |-> "orders"] =>
           /\ PlatformAnswered(attempt)
           /\ \A a \in 1..(attempt - 1) : ~PlatformAnswered(a)

\* The same for new_main.py alone.
C28_NewMainRetryUntilPlatformAnswers ==
    fetch_version = "new_main" => C28_RetryUntilPlatformAnswers

\* functions.py returned None although the platform answered the last
\* attempt, after an attempt that failed at the fetch of the first account.
C28_Witness ==
    /\ fetch_version = "main"
    /\ fetch_result = NoneResult
    /\ attempt >= 2
    /\ platform_faults[1] = <<"fetch", 1>>
    /\ PlatformAnswered(attempt)

-----------------------------------------------------------------------------
(* The Ready tag and the write-back in the batch                           *)

\* tag_order(order, "Ready") is called for the first time in this step
ReadyRequested(order) ==
    /\ "Ready" \notin tag_requests[order]
    /\ "Ready" \in tag_requests'[order]

\* the write-back of the order succeeds in this step
WrittenBack(order) ==
    /\ order \notin updated
    /\ order \in updated'

\* C29: in both passes an order is tagged Ready only in the run of
\* set_shipping_for_order in which its write-back succeeded; an order is
\* written back only with order.winning_rate set, and an order whose
\* write-back has not succeeded carries no Ready tag.
C29_ReadyOnlyAfterWriteBack ==
    /\ [](\A order \in Orders :
            /\ order \in updated => order_winning_rate[order] # EmptyDict
            /\ "Ready" \in tag_requests[order] => order \in updated)
    /\ [][\A order \in Orders :
            /\ ReadyRequested(order) =>
                  /\ InProgram("set_shipping_for_order")
                  /\ CurrentOrder = order
                  /\ WrittenBack(order)
            /\ WrittenBack(order) =>
                  /\ InProgram("set_shipping_for_order")
                  /\ order_winning_rate[order] # EmptyDict]_vars

\* An order whose write-back failed in the first pass carries the Ready tag
\* after the second pass wrote it back.
C29_Witness ==
    /\ main_pc = "second_pass"
    /\ \E i \in 1..Len(reattempt_list) :
          /\ reattempt_list[i][2] = "Shipping not set"
          /\ reattempt_list[i][1] \in updated
          /\ "Ready" \in tags[reattempt_list[i][1]]

-----------------------------------------------------------------------------
(* The deadline of an order in the batch                                   *)

\* the reasons queued in retry_list and in reattempt_list
QueuedReasons ==
    {retry_list[i][2] : i \in 1..Len(retry_list)}
        \cup {reattempt_list[i][2] : i \in 1..Len(reattempt_list)}

\* C30: every constructed order has a deliver_by_date, a missing custom
\* field being replaced by now + 5 days, so no order is queued with the
\* reason No-DeliveryDate and the second pass never retries one for it.
C30_DeadlineNeverMissing ==
    /\ \A field \in CustomFields : Truthy(DeliverByDate(field))
    /\ \A order \in Orders : list_of_order_objects[order].deliver_by_date
    /\ "No-DeliveryDate" \notin QueuedReasons

\* The second pass has run initialize_order again on an order queued for
\* another reason, and the order is past the test of its deadline.
C30_Witness ==
    /\ main_pc = "second_pass"
    /\ InProgram("set_winning_rate")
    /\ CurrentReason = "No SS Carrier Rates"
    /\ list_of_order_objects[CurrentOrder].deliver_by_date

=============================================================================
